---------------------------- MODULE Spec2Model ----------------------------
(***************************************************************************)
(* A model of the sharded LRU cache of util/cache.cc: the HandleTable hash *)
(* table, the LRU ring, the reference counted LRUHandle entries, one       *)
(* LRUCache per shard and the ShardedLRUCache router with its id counter.  *)
(*                                                                         *)
(* Pointers are modelled by entry ids (1, 2, ...; NULL is 0).  A bucket's  *)
(* next_hash chain is the sequence of the ids linked in it, head first;    *)
(* the circular list around the dummy head lru_ is the sequence of ids     *)
(* from lru_.next (oldest) to lru_.prev (newest).  The heap maps the ids   *)
(* of the entries that are malloc'ed and not yet free'd to their fields.   *)
(***************************************************************************)
EXTENDS Integers, Sequences, FiniteSets, TLC

VARIABLES
  shard_,     \* ShardedLRUCache::shard_ : shard index -> LRUCache fields
  heap,       \* allocated LRUHandle structs : id -> fields
  allocs,     \* history: the number of entries malloc'ed so far (ids 1 .. allocs)
  deleted,    \* history: id -> the number of deleter calls made for the entry
  handles,    \* the callers' state: id -> number of unreleased handles
  stamp,      \* history: id of a linked entry -> allocs at the last Lookup
              \* that returned it (0: none since its Insert)
  gone,       \* history: id of an allocated entry -> how it left the table
              \* ("no": it did not), kept until the entry is free'd
  last,       \* history: the operation that completed last, with its result
  last_id_,   \* ShardedLRUCache::last_id_
  id_mutex_,  \* ShardedLRUCache::id_mutex_ : the thread holding it, or NoThread
  idpc,       \* thread -> its position inside NewId
  idtmp,      \* thread -> the value it read from / computed for last_id_
  ids,        \* history: thread -> the values NewId returned to it, in order
  mutex_,     \* LRUCache::mutex_ of each shard : the thread holding it, or NoThread
  call,       \* thread -> the operation on a shard it is in, with its position
              \* (pc) and, as history, the shard and the heap as they were
              \* when it got the lock
  destroyed,  \* "no" until ~ShardedLRUCache has run; then "yes", or "abort"
              \* when an assert of the destructor failed
  mu_,        \* PosixEnv::mu_ : the thread holding it, or NoThread
  bgsignal_,  \* PosixEnv::bgsignal_ : the threads blocked in pthread_cond_wait
  started_bgthread_,
  queue_,     \* PosixEnv::queue_ : the items, front first
  spc,        \* thread -> its position inside Schedule
  sitem,      \* thread -> the item (function, arg) of its Schedule call
  bgpc,       \* position of the background thread inside BGThread ("none"
              \* before pthread_create)
  bgitem,     \* the item the background thread has taken from the queue
  created,    \* history: number of pthread_create calls for BGThreadWrapper
  scheduled,  \* history: number of Schedule calls so far
  enq,        \* history: the items in the order of their push_back
  ran,        \* history: the items in the order in which they were run
  locked_files_,  \* PosixLockTable::locked_files_
  lpc,        \* thread -> its position inside LockFile or UnlockFile
  lfile,      \* thread -> fname of its LockFile call, my_lock->name_ of its
              \* UnlockFile call
  lres,       \* thread -> what its last LockFile or UnlockFile call returned:
              \* ok, whether the Status is OK; msg, the message of the
              \* Status; lock, the value of *lock
  held,       \* the PosixFileLock objects returned by LockFile and not yet
              \* given to UnlockFile
  grants,     \* history: file name -> number of successful LockFile calls
  lockcalls,  \* history: number of LockFile calls so far
  table_,     \* a HandleTable object used on its own
  nodes,      \* the LRUHandle structs given to table_ so far: id -> key, hash
  tlast,      \* history: the last call on table_, with what it returned
  requested   \* history: the capacity given to NewLRUCache

vars == <<shard_, heap, allocs, deleted, handles, stamp, gone, last,
          last_id_, id_mutex_, idpc, idtmp, ids, mutex_, call, destroyed,
          mu_, bgsignal_, started_bgthread_, queue_, spc, sitem, bgpc, bgitem,
          created, scheduled, enq, ran,
          locked_files_, lpc, lfile, lres, held, grants, lockcalls,
          table_, nodes, tlast, requested>>
cacheVars == <<shard_, heap, allocs, deleted, handles, stamp, gone, last>>
idVars == <<last_id_, id_mutex_, idpc, idtmp, ids>>
\* what the operations on the entries and NewId leave alone
concVars == <<mutex_, call>>
schedVars == <<mu_, bgsignal_, started_bgthread_, queue_, spc, sitem, bgpc,
               bgitem, created, scheduled, enq, ran>>
lockVars == <<locked_files_, lpc, lfile, lres, held, grants, lockcalls>>
tableVars == <<table_, nodes, tlast>>
envVars == <<schedVars, lockVars, tableVars, requested>>
otherVars == <<concVars, destroyed, envVars>>

-----------------------------------------------------------------------------
(* Bounds of the model *)

\* Insert calls in one behaviour (entries ever allocated)
MaxEntries == 3
\* handles the callers hold unreleased at a time
MaxHandles == 2
\* NewId calls in one behaviour
MaxIds == 3
\* with threads calling concurrently on one shard: Insert calls in one
\* behaviour and handles held at a time
MaxConcEntries == 2
MaxConcHandles == 2
\* with threads calling concurrently on two shards and NewId: Insert calls,
\* handles held at a time and NewId calls
MaxLockEntries == 1
MaxLockHandles == 1
MaxLockIds == 1
\* Schedule calls in one behaviour
MaxItems == 2
\* LockFile calls in one behaviour
MaxLockCalls == 3
\* The bits of a size_t of the model: capacities are 0 .. 2 ^ SizeBits - 1 and
\* size_t arithmetic is modulo 2 ^ SizeBits
SizeBits == 8
\* Resize is evaluated for tables of up to 2 ^ MaxLengthBits buckets
MaxLengthBits == 8

(* Program constants *)
kNumShardBits == 4
kNumShards == 16

NULL == 0
\* Threads are numbered; no thread is 0
NoThread == 0
Threads == {1, 2, 3}

\* Inputs the callers draw from
Keys == {"a", "b", "c"}
\* The keys given to the HandleTable used on its own
TableKeys == {"a", "b", "c", "e", "f"}
\* The value of the n-th Insert call.  cache.cc never reads through a value
\* (an opaque void*), so the callers pass a different one in every call.
Value_(n) == 100 + n
Charges == {1, 2}
\* The threads calling LockFile and UnlockFile, and the file names they give
LockThreads == {1, 2}
FileNames == {"f", "g"}
\* total capacities given to NewLRUCache: 16 shards of 1 and of 3
Capacities == {16, 33}

-----------------------------------------------------------------------------
(* Bit operations on 32-bit unsigned values *)

RECURSIVE BitAnd(_, _)
BitAnd(x, y) ==
  IF x = 0 \/ y = 0 THEN 0
  ELSE (IF x % 2 = 1 /\ y % 2 = 1 THEN 1 ELSE 0) + 2 * BitAnd(x \div 2, y \div 2)

\* hash >> n for a 32-bit hash
ShiftRight(x, n) == x \div (2 ^ n)

\* Hash(s.data(), s.size(), 0) on the keys of the model: "b" and "c" collide
\* on the whole hash, "a" shares their bucket while the table has 4 buckets.
HashSlice(key) ==
  CASE key = "a" -> 1
    [] key = "b" -> 5
    [] key = "c" -> 5
    [] key = "d" -> 2 ^ 28 + 1
    [] key = "e" -> 6
    [] key = "f" -> 11
    [] OTHER -> 2

\* Mutant: the shard is taken from the low bits of the hash
Shard_LowBits(hash) == BitAnd(hash, kNumShards - 1)

Shard(hash) == ShiftRight(hash, 32 - kNumShardBits)

\* The shards the keys of the model route to.  No operation of the model
\* reaches any other of the kNumShards shards, which stay as constructed.
AllKeys == {"a", "b", "c", "d"}
Shards == {Shard(HashSlice(key)) : key \in AllKeys}

-----------------------------------------------------------------------------
(* HandleTable.  T = [length_, elems_, list_], list_ a function from       *)
(* 0 .. length_-1 to the chain of the bucket.  H is the heap, read for the *)
(* hash and the key of the linked entries.                                 *)

\* The slot FindPointer returns: bucket b, position p in the chain of b;
\* p = Len(chain) + 1 is the trailing slot (*ptr == NULL).
FindPointer(T, H, key, hash) ==
  LET b == BitAnd(hash, T.length_ - 1)
      chain == T.list_[b]
      hits == {i \in 1..Len(chain) :
                 ~(H[chain[i]].hash # hash \/ key # H[chain[i]].key)}
  IN [b |-> b,
      p |-> IF hits = {} THEN Len(chain) + 1
            ELSE CHOOSE i \in hits : \A j \in hits : i <= j]

\* *ptr
Deref(T, ptr) ==
  IF ptr.p <= Len(T.list_[ptr.b]) THEN T.list_[ptr.b][ptr.p] ELSE NULL

\* Mutant: the chain walk compares the hash alone, not the key
HandleTable_Lookup_HashOnly(T, H, key, hash) ==
  LET chain == T.list_[BitAnd(hash, T.length_ - 1)]
      hits == {i \in 1..Len(chain) : H[chain[i]].hash = hash}
  IN IF hits = {} THEN NULL
     ELSE chain[CHOOSE i \in hits : \A j \in hits : i <= j]

HandleTable_Lookup(T, H, key, hash) == Deref(T, FindPointer(T, H, key, hash))

\* Mutant: new_length *= 4 in the loop
RECURSIVE NewLength_Quadruple(_, _)
NewLength_Quadruple(n, elems) ==
  IF n < elems THEN NewLength_Quadruple(n * 4, elems) ELSE n

\* new_length of Resize: 4 doubled while new_length < elems_
RECURSIVE NewLength(_, _)
NewLength(n, elems) == IF n < elems THEN NewLength(n * 2, elems) ELSE n

\* The entries of the old buckets in the order Resize visits them
RECURSIVE VisitOrder(_, _)
VisitOrder(T, i) ==
  IF i >= T.length_ THEN <<>> ELSE T.list_[i] \o VisitOrder(T, i + 1)

\* Mutant: the new bucket is taken with the mask of the old length
RECURSIVE Rehash_OldMask(_, _, _, _)
Rehash_OldMask(list, order, H, new_length) ==
  IF order = <<>> THEN list
  ELSE LET h == Head(order)
           b == BitAnd(H[h].hash, (new_length \div 2) - 1)
       IN Rehash_OldMask([list EXCEPT ![b] = <<h>> \o @], Tail(order), H,
                         new_length)

\* Each visited entry is linked at the head of its new bucket
RECURSIVE Rehash(_, _, _, _)
Rehash(list, order, H, new_length) ==
  IF order = <<>> THEN list
  ELSE LET h == Head(order)
           b == BitAnd(H[h].hash, new_length - 1)
       IN Rehash([list EXCEPT ![b] = <<h>> \o @], Tail(order), H, new_length)

Resize(T, H) ==
  LET new_length == NewLength(4, T.elems_)
      new_list == [i \in 0..(new_length - 1) |-> <<>>]
  IN [length_ |-> new_length,
      elems_ |-> T.elems_,
      list_ |-> Rehash(new_list, VisitOrder(T, 0), H, new_length)]

\* HandleTable() : length_(0), elems_(0), list_(NULL) { Resize(); }
HandleTable_New ==
  Resize([length_ |-> 0, elems_ |-> 0, list_ |-> <<>>], <<>>)

\* Mutant: Insert never calls Resize
HandleTable_Insert_NoResize(T, H, h) ==
  LET ptr == FindPointer(T, H, H[h].key, H[h].hash)
      old == Deref(T, ptr)
      chain == T.list_[ptr.b]
      linked == IF old = NULL THEN Append(chain, h)
                ELSE [chain EXCEPT ![ptr.p] = h]
      T1 == [T EXCEPT !.list_[ptr.b] = linked]
  IN [table |-> IF old = NULL THEN [T1 EXCEPT !.elems_ = @ + 1] ELSE T1,
      old |-> old]

\* Mutant: h is linked at the end of its chain whether or not an entry with
\* its key is there
HandleTable_Insert_NoReplace(T, H, h) ==
  LET b == BitAnd(H[h].hash, T.length_ - 1)
      T2 == [T EXCEPT !.list_[b] = Append(@, h), !.elems_ = @ + 1]
  IN [table |-> IF T2.elems_ > T2.length_ THEN Resize(T2, H) ELSE T2,
      old |-> NULL]

\* Returns the new table and the displaced entry (old).  H already holds h.
HandleTable_Insert(T, H, h) ==
  LET ptr == FindPointer(T, H, H[h].key, H[h].hash)
      old == Deref(T, ptr)
      chain == T.list_[ptr.b]
      linked == IF old = NULL THEN Append(chain, h)
                ELSE [chain EXCEPT ![ptr.p] = h]
      T1 == [T EXCEPT !.list_[ptr.b] = linked]
      T2 == [T1 EXCEPT !.elems_ = @ + 1]
  IN [table |-> IF old = NULL
                THEN (IF T2.elems_ > T2.length_ THEN Resize(T2, H) ELSE T2)
                ELSE T1,
      old |-> old]

\* Mutant: --elems_ also when no entry was found
HandleTable_Remove_AlwaysDecrement(T, H, key, hash) ==
  LET ptr == FindPointer(T, H, key, hash)
      result == Deref(T, ptr)
      chain == T.list_[ptr.b]
      spliced == [i \in 1..(Len(chain) - 1) |->
                    IF i < ptr.p THEN chain[i] ELSE chain[i + 1]]
  IN [table |-> IF result # NULL
                THEN [T EXCEPT !.list_[ptr.b] = spliced, !.elems_ = @ - 1]
                ELSE [T EXCEPT !.elems_ = @ - 1],
      result |-> result]

\* Returns the new table and the removed entry (result)
HandleTable_Remove(T, H, key, hash) ==
  LET ptr == FindPointer(T, H, key, hash)
      result == Deref(T, ptr)
      chain == T.list_[ptr.b]
      spliced == [i \in 1..(Len(chain) - 1) |->
                    IF i < ptr.p THEN chain[i] ELSE chain[i + 1]]
  IN [table |-> IF result # NULL
                THEN [T EXCEPT !.list_[ptr.b] = spliced, !.elems_ = @ - 1]
                ELSE T,
      result |-> result]

Range(seq) == {seq[i] : i \in 1..Len(seq)}

\* The entries linked in the table
TableEntries(T) == UNION {Range(T.list_[b]) : b \in 0..(T.length_ - 1)}

-----------------------------------------------------------------------------
(* LRUCache.  L = [capacity_, usage_, lru_, table_] together with the two  *)
(* things its methods reach through pointers: heap (the LRUHandle structs) *)
(* and calls (the deleter calls made so far by the running operation, each *)
(* <<entry, key, value>>).  evicted records, in order, the entries the     *)
(* eviction loop of the running operation has removed.                     *)

\* LRUCache() : usage_(0), the empty circular list and an empty table
LRUCache_New(capacity) ==
  [capacity_ |-> capacity, usage_ |-> 0, lru_ |-> <<>>, table_ |-> HandleTable_New]

\* e->next->prev = e->prev; e->prev->next = e->next
LRU_Remove(lru, e) == SelectSeq(lru, LAMBDA x : x # e)

\* Mutant: e is inserted just after lru_, as the oldest entry
LRU_Append_Front(lru, e) == <<e>> \o lru

\* Make e the newest entry by inserting it just before lru_
LRU_Append(lru, e) == Append(lru, e)

\* Mutant: the deleter call is outside the if (refs <= 0)
Unref_DeleterAlways(L, e) ==
  LET refs == L.heap[e].refs - 1
      L1 == [L EXCEPT !.calls = Append(@, <<e, L.heap[e].key, L.heap[e].value>>)]
  IN IF refs <= 0
     THEN [L1 EXCEPT
             !.usage_ = @ - L.heap[e].charge,
             !.heap = [x \in (DOMAIN L.heap) \ {e} |-> L.heap[x]]]
     ELSE [L1 EXCEPT !.heap[e].refs = refs]

\* Mutant: the entry is free'd whatever its count
Unref_IgnoreCount(L, e) ==
  [L EXCEPT
     !.usage_ = @ - L.heap[e].charge,
     !.calls = Append(@, <<e, L.heap[e].key, L.heap[e].value>>),
     !.heap = [x \in (DOMAIN L.heap) \ {e} |-> L.heap[x]]]

\* Mutant: usage_ -= charge is outside the if (refs <= 0)
Unref_ChargeAlways(L, e) ==
  LET refs == L.heap[e].refs - 1
      L1 == [L EXCEPT !.usage_ = @ - L.heap[e].charge]
  IN IF refs <= 0
     THEN [L1 EXCEPT
             !.calls = Append(@, <<e, L.heap[e].key, L.heap[e].value>>),
             !.heap = [x \in (DOMAIN L.heap) \ {e} |-> L.heap[x]]]
     ELSE [L1 EXCEPT !.heap[e].refs = refs]

\* refs--; at zero: usage_ -= charge, the deleter is called, the entry free'd.
\* When L has the field stuck, the deleter the caller gave is one that calls
\* back into the cache for the key it is given: the call of the deleter does
\* not return before that nested call does, and stuck is set.
Unref(L, e) ==
  LET refs == L.heap[e].refs - 1
  IN IF refs <= 0
     THEN IF "stuck" \in DOMAIN L
          THEN [L EXCEPT
                  !.usage_ = @ - L.heap[e].charge,
                  !.calls = Append(@, <<e, L.heap[e].key, L.heap[e].value>>),
                  !.heap[e].refs = refs,
                  !.stuck = TRUE]
          ELSE [L EXCEPT
                  !.usage_ = @ - L.heap[e].charge,
                  !.calls = Append(@, <<e, L.heap[e].key, L.heap[e].value>>),
                  !.heap = [x \in (DOMAIN L.heap) \ {e} |-> L.heap[x]]]
     ELSE [L EXCEPT !.heap[e].refs = refs]

\* Mutant: the entry found is left where it is in the ring
LRUCache_Lookup_NoMove(L, key, hash) ==
  LET e == HandleTable_Lookup(L.table_, L.heap, key, hash)
  IN IF e # NULL
     THEN [L EXCEPT !.heap[e].refs = @ + 1] @@ [ret |-> e]
     ELSE L @@ [ret |-> NULL]

\* The result of Lookup is ret, the handle (NULL when there is no entry)
LRUCache_Lookup(L, key, hash) ==
  LET e == HandleTable_Lookup(L.table_, L.heap, key, hash)
  IN IF e # NULL
     THEN [L EXCEPT !.heap[e].refs = @ + 1,
                    !.lru_ = LRU_Append(LRU_Remove(L.lru_, e), e)]
            @@ [ret |-> e]
     ELSE L @@ [ret |-> NULL]

LRUCache_Release(L, handle) == Unref(L, handle)

\* Mutant: an if in place of the while, one eviction at most
EvictLoop_Once(L) ==
  IF L.usage_ > L.capacity_ /\ L.lru_ # <<>>
  THEN LET old == Head(L.lru_)
           L1 == [L EXCEPT !.lru_ = LRU_Remove(L.lru_, old)]
           L2 == [L1 EXCEPT !.table_ =
                    HandleTable_Remove(L1.table_, L1.heap,
                                       L1.heap[old].key, L1.heap[old].hash).table]
       IN Unref([L2 EXCEPT !.evicted = Append(@, old)], old)
  ELSE L

\* Mutant: the loop stops at the newest entry of the ring
RECURSIVE EvictLoop_SpareNewest(_)
EvictLoop_SpareNewest(L) ==
  IF L.usage_ > L.capacity_ /\ Len(L.lru_) > 1
  THEN LET old == Head(L.lru_)
           L1 == [L EXCEPT !.lru_ = LRU_Remove(L.lru_, old)]
           L2 == [L1 EXCEPT !.table_ =
                    HandleTable_Remove(L1.table_, L1.heap,
                                       L1.heap[old].key, L1.heap[old].hash).table]
       IN EvictLoop_SpareNewest(Unref([L2 EXCEPT !.evicted = Append(@, old)],
                                      old))
  ELSE L

\* Mutant: the body of the loop leaves lru_.next linked
EvictIteration_KeepLinked(L) == L

\* The body of the eviction loop: old = lru_.next; LRU_Remove(old);
\* table_.Remove(old->key(), old->hash); Unref(old)
EvictIteration(L) ==
  LET old == Head(L.lru_)
      L1 == [L EXCEPT !.lru_ = LRU_Remove(L.lru_, old)]
      L2 == [L1 EXCEPT !.table_ =
               HandleTable_Remove(L1.table_, L1.heap,
                                  L1.heap[old].key, L1.heap[old].hash).table]
  IN Unref([L2 EXCEPT !.evicted = Append(@, old)], old)

\* while (usage_ > capacity_ && lru_.next != &lru_): evict lru_.next.  The
\* loop does not go on when a deleter it called has not returned (stuck).
RECURSIVE EvictLoop(_)
EvictLoop(L) ==
  IF L.usage_ > L.capacity_ /\ L.lru_ # <<>>
     /\ ~("stuck" \in DOMAIN L /\ L.stuck)
  THEN EvictLoop(EvictIteration(L))
  ELSE L

\* Mutant: the displaced entry is unlinked from the ring but not Unref'ed
LRUCache_Insert_KeepOld(L, e, key, hash, value, charge) ==
  LET entry == [value |-> value, charge |-> charge, key |-> key,
                refs |-> 2, hash |-> hash]
      L1 == [L EXCEPT !.heap = (e :> entry) @@ @,
                      !.lru_ = LRU_Append(@, e),
                      !.usage_ = @ + charge]
      ins == HandleTable_Insert(L1.table_, L1.heap, e)
      L2 == [L1 EXCEPT !.table_ = ins.table]
      L3 == IF ins.old # NULL
            THEN [L2 EXCEPT !.lru_ = LRU_Remove(@, ins.old)]
            ELSE L2
  IN EvictLoop(L3) @@ [ret |-> e, old |-> ins.old]

\* Insert up to the eviction loop.  e is the address malloc returns: an id
\* that is not allocated
LRUCache_InsertLink(L, e, key, hash, value, charge) ==
  LET entry == [value |-> value, charge |-> charge, key |-> key,
                refs |-> 2, hash |-> hash]
      L1 == [L EXCEPT !.heap = (e :> entry) @@ @,
                      !.lru_ = LRU_Append(@, e),
                      !.usage_ = @ + charge]
      ins == HandleTable_Insert(L1.table_, L1.heap, e)
      L2 == [L1 EXCEPT !.table_ = ins.table]
      L3 == IF ins.old # NULL
            THEN Unref([L2 EXCEPT !.lru_ = LRU_Remove(@, ins.old)], ins.old)
            ELSE L2
  IN L3 @@ [ret |-> e, old |-> ins.old]

LRUCache_Insert(L, e, key, hash, value, charge) ==
  EvictLoop(LRUCache_InsertLink(L, e, key, hash, value, charge))

\* Mutant: the erased entry is not unlinked from the ring
LRUCache_Erase_NoLRURemove(L, key, hash) ==
  LET rem == HandleTable_Remove(L.table_, L.heap, key, hash)
      e == rem.result
      L1 == [L EXCEPT !.table_ = rem.table]
  IN (IF e # NULL THEN Unref(L1, e) ELSE L1) @@ [old |-> e]

LRUCache_Erase(L, key, hash) ==
  LET rem == HandleTable_Remove(L.table_, L.heap, key, hash)
      e == rem.result
      L1 == [L EXCEPT !.table_ = rem.table]
  IN (IF e # NULL
      THEN Unref([L1 EXCEPT !.lru_ = LRU_Remove(@, e)], e)
      ELSE L1) @@ [old |-> e]

-----------------------------------------------------------------------------
(* ShardedLRUCache: the public operations.  Each runs in one step: its     *)
(* whole body is inside MutexLock l(&mutex_) of the shard it routes to.    *)

\* per_shard of the constructor
PerShard(capacity) ==
  ((capacity + (kNumShards - 1)) % (2 ^ SizeBits)) \div kNumShards

\* Mutant: every call works on the LRUCache of shard 0
View_First(s) == shard_[0] @@ [heap |-> heap, calls |-> <<>>, evicted |-> <<>>]

\* The LRUCache of shard s with the heap it reaches, at the start of an
\* operation: no deleter call and no eviction yet
View(s) == shard_[s] @@ [heap |-> heap, calls |-> <<>>, evicted |-> <<>>]

\* The fields of the result R that belong to the LRUCache object itself
Fields(R) ==
  [capacity_ |-> R.capacity_, usage_ |-> R.usage_, lru_ |-> R.lru_,
   table_ |-> R.table_]

\* deleted after the deleter calls of one operation
Count(calls) ==
  [e \in 1..MaxEntries |->
     deleted[e] + Cardinality({i \in 1..Len(calls) : calls[i][1] = e})]

\* stamp is kept for the entries linked in the ring (a Lookup can return no
\* other), gone for the entries that are still allocated
Stamps(st, s, R) ==
  LET linked == Range(R.lru_) \cup
                UNION {Range(shard_[x].lru_) : x \in Shards \ {s}}
  IN [e \in 1..MaxEntries |-> IF e \in linked THEN st[e] ELSE 0]

Gone(R, how) ==
  [e \in 1..MaxEntries |->
     IF e \notin DOMAIN R.heap THEN "no"
     ELSE IF e \in Range(R.evicted) THEN "evicted"
     ELSE IF e = R.old THEN how
     ELSE gone[e]]

\* The handles the callers hold
Held ==
  LET Sum[e \in 0..MaxEntries] == IF e = 0 THEN 0 ELSE handles[e] + Sum[e - 1]
  IN Sum[MaxEntries]

\* A thread that is in no operation on a shard
IdleCall == [pc |-> "idle", op |-> "none", key |-> "", charge |-> 0,
             handle |-> NULL, s |-> 0, shard |-> <<>>, heap |-> <<>>]

\* last: op, the operation; key, its key; ret, the handle Insert or Lookup
\* returned, the handle given to Release; old, the entry an Insert replaced
\* or an Erase removed; evicted, the entries the eviction loop removed, in
\* order; calls, the deleter calls of the operation in order.
NoOp == [op |-> "none", key |-> "", ret |-> NULL, old |-> NULL,
         evicted |-> <<>>, calls |-> <<>>]

Init ==
  /\ \E capacity \in Capacities :
       /\ shard_ = [s \in Shards |-> LRUCache_New(PerShard(capacity))]
       /\ requested = capacity
  /\ heap = <<>>
  /\ allocs = 0
  /\ deleted = [e \in 1..MaxEntries |-> 0]
  /\ handles = [e \in 1..MaxEntries |-> 0]
  /\ stamp = [e \in 1..MaxEntries |-> 0]
  /\ gone = [e \in 1..MaxEntries |-> "no"]
  /\ last = NoOp
  /\ last_id_ = 0
  /\ id_mutex_ = NoThread
  /\ idpc = [t \in Threads |-> "idle"]
  /\ idtmp = [t \in Threads |-> 0]
  /\ ids = [t \in Threads |-> <<>>]
  /\ mutex_ = [s \in Shards |-> NoThread]
  /\ call = [t \in Threads |-> IdleCall]
  /\ destroyed = "no"
  /\ mu_ = NoThread
  /\ bgsignal_ = {}
  /\ started_bgthread_ = FALSE
  /\ queue_ = <<>>
  /\ spc = [t \in Threads |-> "idle"]
  /\ sitem = [t \in Threads |-> NULL]
  /\ bgpc = "none"
  /\ bgitem = NULL
  /\ created = 0
  /\ scheduled = 0
  /\ enq = <<>>
  /\ ran = <<>>
  /\ locked_files_ = {}
  /\ lpc = [t \in Threads |-> "idle"]
  /\ lfile = [t \in Threads |-> ""]
  /\ lres = [t \in Threads |-> [ok |-> TRUE, lock |-> NULL, msg |-> ""]]
  /\ held = {}
  /\ grants = [f \in FileNames |-> 0]
  /\ lockcalls = 0
  /\ table_ = HandleTable_New
  /\ nodes = <<>>
  /\ tlast = [op |-> "none", key |-> "", h |-> NULL, ret |-> NULL]

\* The operations' effect on the shards, the entries and the histories
InsertBody(key, value, charge) ==
  /\ destroyed = "no"
  /\ allocs < MaxEntries
  /\ Held < MaxHandles
  /\ LET hash == HashSlice(key)
         s == Shard(hash)
         e == allocs + 1
     IN \E R \in {LRUCache_Insert(View(s), e, key, hash, value, charge)} :
        /\ shard_' = [shard_ EXCEPT ![s] = Fields(R)]
        /\ heap' = R.heap
        /\ deleted' = Count(R.calls)
        /\ allocs' = e
        /\ handles' = [handles EXCEPT ![e] = 1]
        /\ stamp' = Stamps(stamp, s, R)
        /\ gone' = Gone(R, "replaced")
        /\ last' = [op |-> "Insert", key |-> key, ret |-> R.ret, old |-> R.old,
                    evicted |-> R.evicted, calls |-> R.calls]

Insert(key, value, charge) ==
  /\ InsertBody(key, value, charge)
  /\ UNCHANGED <<idVars, otherVars>>

LookupBody(key) ==
  /\ destroyed = "no"
  /\ Held < MaxHandles
  /\ LET hash == HashSlice(key)
         s == Shard(hash)
     IN \E R \in {LRUCache_Lookup(View(s), key, hash)} :
        /\ shard_' = [shard_ EXCEPT ![s] = Fields(R)]
        /\ heap' = R.heap
        /\ deleted' = Count(R.calls)
        /\ handles' = IF R.ret # NULL THEN [handles EXCEPT ![R.ret] = @ + 1]
                      ELSE handles
        /\ stamp' = IF R.ret # NULL THEN [stamp EXCEPT ![R.ret] = allocs]
                    ELSE stamp
        /\ last' = [NoOp EXCEPT !.op = "Lookup", !.key = key, !.ret = R.ret]
  /\ UNCHANGED <<allocs, gone>>

Lookup(key) ==
  /\ LookupBody(key)
  /\ UNCHANGED <<idVars, otherVars>>

\* handle is one of the caller's unreleased handles
ReleaseBody(handle) ==
  /\ destroyed = "no"
  /\ handles[handle] > 0
  /\ LET s == Shard(heap[handle].hash)
     IN \E R \in {LRUCache_Release(View(s), handle) @@ [old |-> NULL]} :
        /\ shard_' = [shard_ EXCEPT ![s] = Fields(R)]
        /\ heap' = R.heap
        /\ deleted' = Count(R.calls)
        /\ handles' = [handles EXCEPT ![handle] = @ - 1]
        /\ stamp' = Stamps(stamp, s, R)
        /\ gone' = Gone(R, "no")
        /\ last' = [NoOp EXCEPT !.op = "Release", !.ret = handle, !.calls = R.calls]
  /\ UNCHANGED allocs

Release(handle) ==
  /\ ReleaseBody(handle)
  /\ UNCHANGED <<idVars, otherVars>>

EraseBody(key) ==
  /\ destroyed = "no"
  /\ LET hash == HashSlice(key)
         s == Shard(hash)
     IN \E R \in {LRUCache_Erase(View(s), key, hash)} :
        /\ shard_' = [shard_ EXCEPT ![s] = Fields(R)]
        /\ heap' = R.heap
        /\ deleted' = Count(R.calls)
        /\ stamp' = Stamps(stamp, s, R)
        /\ gone' = Gone(R, "erased")
        /\ last' = [NoOp EXCEPT !.op = "Erase", !.key = key, !.old = R.old,
                                !.calls = R.calls]
  /\ UNCHANGED <<allocs, handles>>

Erase(key) ==
  /\ EraseBody(key)
  /\ UNCHANGED <<idVars, otherVars>>

\* void* Value(Handle* handle) of an unreleased handle
Value(handle) == heap[handle].value

\* What reading the value field of a free'd entry can give
Dangling(handle) == {NULL, Value_(handle)}

\* A call of Value(handle): no lock is taken, the field is read and
\* returned.  handle is one of the caller's unreleased handles.
ValueCall(handle) ==
  /\ destroyed = "no"
  /\ handles[handle] > 0
  /\ \E v \in (IF handle \in DOMAIN heap THEN {Value(handle)}
                ELSE Dangling(handle)) :
       last' = [NoOp EXCEPT !.op = "Value", !.ret = handle] @@ [value |-> v]
  /\ UNCHANGED <<shard_, heap, allocs, deleted, handles, stamp, gone>>
  /\ UNCHANGED <<idVars, otherVars>>

Next ==
  \/ \E key \in Keys, charge \in Charges : Insert(key, Value_(allocs + 1), charge)
  \/ \E key \in Keys : Lookup(key)
  \/ \E handle \in 1..MaxEntries : Release(handle)
  \/ \E key \in Keys : Erase(key)

Spec == Init /\ [][Next]_vars

\* The operations on keys of two shards: a and b route to shard 0, d to
\* shard 1
ShardKeys == {"a", "b", "d"}

NextShards ==
  \/ \E key \in ShardKeys : Insert(key, Value_(allocs + 1), 1)
  \/ \E key \in ShardKeys : Lookup(key)
  \/ \E handle \in 1..MaxEntries : Release(handle)
  \/ \E key \in ShardKeys : Erase(key)

SpecShards == Init /\ [][NextShards]_vars

\* The operations and Value
NextValue ==
  \/ Next
  \/ \E handle \in 1..MaxEntries : ValueCall(handle)

SpecValue == Init /\ [][NextValue]_vars

-----------------------------------------------------------------------------
(* ~ShardedLRUCache: the shard_ array is destroyed, element by element from *)
(* the last one, each by ~LRUCache; no lock is taken.  With NDEBUG the      *)
(* assert is compiled out; without it a failing assert aborts the process.  *)

\* Mutant: the loop does not advance, only lru_.next is Unref'ed
DtorLoop_FirstOnly(L, ring, ndebug) ==
  IF ring = <<>> THEN L
  ELSE IF L.heap[Head(ring)].refs # 1 /\ ~ndebug
       THEN [L EXCEPT !.aborted = TRUE]
       ELSE Unref(L, Head(ring))

\* for (e = lru_.next; e != &lru_; e = next) { assert(e->refs == 1); Unref(e) }
\* over ring, the entries from e on
RECURSIVE DtorLoop(_, _, _)
DtorLoop(L, ring, ndebug) ==
  IF ring = <<>> THEN L
  ELSE IF L.heap[Head(ring)].refs # 1 /\ ~ndebug
       THEN [L EXCEPT !.aborted = TRUE]
       ELSE DtorLoop(Unref(L, Head(ring)), Tail(ring), ndebug)

LRUCache_Dtor(L, ndebug) == DtorLoop(L, L.lru_, ndebug)

\* The shards s, s-1, ..., 0 of the model destroyed in this order, from the
\* state D = [shard, heap, calls, aborted]
RECURSIVE DtorShards(_, _, _)
DtorShards(D, s, ndebug) ==
  IF s < 0 \/ D.aborted THEN D
  ELSE IF s \notin Shards THEN DtorShards(D, s - 1, ndebug)
  ELSE LET R == LRUCache_Dtor(D.shard[s] @@
                   [heap |-> D.heap, calls |-> D.calls, evicted |-> <<>>,
                    aborted |-> FALSE], ndebug)
       IN DtorShards([shard |-> [D.shard EXCEPT ![s] = Fields(R)],
                      heap |-> R.heap, calls |-> R.calls,
                      aborted |-> R.aborted], s - 1, ndebug)

Destroy ==
  /\ destroyed = "no"
  /\ \E ndebug \in BOOLEAN :
       \E R \in {DtorShards([shard |-> shard_, heap |-> heap, calls |-> <<>>,
                             aborted |-> FALSE], kNumShards - 1, ndebug)} :
         /\ shard_' = R.shard
         /\ heap' = R.heap
         /\ deleted' = Count(R.calls)
         /\ destroyed' = IF R.aborted THEN "abort" ELSE "yes"
         /\ gone' = [e \in 1..MaxEntries |->
                       IF e \in DOMAIN R.heap THEN gone[e] ELSE "no"]
         /\ last' = [NoOp EXCEPT !.op = "~ShardedLRUCache", !.calls = R.calls]
  /\ stamp' = [e \in 1..MaxEntries |-> 0]
  /\ UNCHANGED <<allocs, handles, idVars, concVars, envVars>>

\* The operations on the entries, and the destruction of the cache
NextDtor ==
  \/ Next
  \/ Destroy

SpecDtor == Init /\ [][NextDtor]_vars

-----------------------------------------------------------------------------
(* NewId: MutexLock l(&id_mutex_); return ++(last_id_);  The increment of  *)
(* the plain uint64_t is a read and a write; the MutexLock is released     *)
(* after the value to return has been computed.                            *)

\* Mutant: the lock is not waited for
Mutex_Lock_NoWait(mu, t) == TRUE

\* pthread_mutex_lock returns once no thread holds the mutex
Mutex_Lock(mu, t) == mu = NoThread

\* NewId calls begun so far
RECURSIVE BegunBy(_)
BegunBy(T) ==
  IF T = {} THEN 0
  ELSE LET t == CHOOSE x \in T : TRUE
       IN Len(ids[t]) + (IF idpc[t] = "idle" THEN 0 ELSE 1) + BegunBy(T \ {t})

Begun == BegunBy(Threads)

NewIdLock(t) ==
  /\ idpc[t] = "idle"
  /\ Begun < MaxIds
  /\ Mutex_Lock(id_mutex_, t)
  /\ id_mutex_' = t
  /\ idpc' = [idpc EXCEPT ![t] = "read"]
  /\ UNCHANGED <<cacheVars, otherVars, last_id_, idtmp, ids>>

NewIdRead(t) ==
  /\ idpc[t] = "read"
  /\ idtmp' = [idtmp EXCEPT ![t] = last_id_]
  /\ idpc' = [idpc EXCEPT ![t] = "write"]
  /\ UNCHANGED <<cacheVars, otherVars, last_id_, id_mutex_, ids>>

NewIdWrite(t) ==
  /\ idpc[t] = "write"
  /\ last_id_' = idtmp[t] + 1
  /\ idtmp' = [idtmp EXCEPT ![t] = idtmp[t] + 1]
  /\ idpc' = [idpc EXCEPT ![t] = "unlock"]
  /\ UNCHANGED <<cacheVars, otherVars, id_mutex_, ids>>

\* ~MutexLock and the return of the value
NewIdReturn(t) ==
  /\ idpc[t] = "unlock"
  /\ id_mutex_' = NoThread
  /\ ids' = [ids EXCEPT ![t] = Append(@, idtmp[t])]
  /\ idpc' = [idpc EXCEPT ![t] = "idle"]
  /\ UNCHANGED <<cacheVars, otherVars, last_id_, idtmp>>

\* NewId calls of the threads, concurrent with operations on a shard
IdKeys == {"d"}

NextId ==
  \/ \E t \in Threads : NewIdLock(t)
  \/ \E t \in Threads : NewIdRead(t)
  \/ \E t \in Threads : NewIdWrite(t)
  \/ \E t \in Threads : NewIdReturn(t)
  \/ \E key \in IdKeys : Insert(key, Value_(allocs + 1), 1)
  \/ \E key \in IdKeys : Lookup(key)
  \/ \E handle \in 1..MaxEntries : Release(handle)
  \/ \E key \in IdKeys : Erase(key)

SpecId == Init /\ [][NextId]_vars

-----------------------------------------------------------------------------
(* Threads calling the operations concurrently.  A call computes the hash  *)
(* and the shard outside any lock ("wait"), gets the shard's mutex_ in the *)
(* constructor of MutexLock l(&mutex_) ("locked"), runs the body of the    *)
(* LRUCache method and releases mutex_ in the destructor of l on return.   *)
(* The body is one step: it reads and writes only what mutex_ guards and   *)
(* the entries of its shard.                                               *)

\* The threads that call the operations on the shards, and those that call
\* NewId meanwhile
ShardThreads == {1, 2}
IdThreads == {3}
\* Inputs: keys of one shard; keys of two shards
ConcKeys == {"a", "b"}
LockKeys == {"a", "d"}
ConcCharges == {1, 2}
LockCharges == {1}

\* Mutant: the mutex is not released
Mutex_Unlock_Keep(mu, t) == mu

\* pthread_mutex_unlock: no thread holds the mutex
Mutex_Unlock(mu, t) == NoThread

\* The calls in progress whose operation is in ops
Pending(ops) == {t \in Threads : call[t].pc # "idle" /\ call[t].op \in ops}

\* Thread t calls Insert(key, ., charge): hash and shard are computed.
\* maxEntries and maxHandles are the bounds of the specification.
BeginInsert(t, key, charge, maxEntries, maxHandles) ==
  /\ destroyed = "no"
  /\ call[t].pc = "idle" /\ idpc[t] = "idle"
  /\ allocs + Cardinality(Pending({"Insert"})) < maxEntries
  /\ Held + Cardinality(Pending({"Insert", "Lookup"})) < maxHandles
  /\ call' = [call EXCEPT ![t] =
                [IdleCall EXCEPT !.pc = "wait", !.op = "Insert", !.key = key,
                                 !.charge = charge,
                                 !.s = Shard(HashSlice(key))]]
  /\ UNCHANGED <<cacheVars, idVars, mutex_, destroyed, envVars>>

BeginLookup(t, key, maxHandles) ==
  /\ destroyed = "no"
  /\ call[t].pc = "idle" /\ idpc[t] = "idle"
  /\ Held + Cardinality(Pending({"Insert", "Lookup"})) < maxHandles
  /\ call' = [call EXCEPT ![t] =
                [IdleCall EXCEPT !.pc = "wait", !.op = "Lookup", !.key = key,
                                 !.s = Shard(HashSlice(key))]]
  /\ UNCHANGED <<cacheVars, idVars, mutex_, destroyed, envVars>>

\* handle is an unreleased handle that no call in progress is releasing
BeginRelease(t, handle) ==
  /\ destroyed = "no"
  /\ call[t].pc = "idle" /\ idpc[t] = "idle"
  /\ handles[handle] >
       Cardinality({u \in Pending({"Release"}) : call[u].handle = handle})
  /\ call' = [call EXCEPT ![t] =
                [IdleCall EXCEPT !.pc = "wait", !.op = "Release",
                                 !.handle = handle,
                                 !.s = Shard(heap[handle].hash)]]
  /\ UNCHANGED <<cacheVars, idVars, mutex_, destroyed, envVars>>

BeginErase(t, key) ==
  /\ destroyed = "no"
  /\ call[t].pc = "idle" /\ idpc[t] = "idle"
  /\ call' = [call EXCEPT ![t] =
                [IdleCall EXCEPT !.pc = "wait", !.op = "Erase", !.key = key,
                                 !.s = Shard(HashSlice(key))]]
  /\ UNCHANGED <<cacheVars, idVars, mutex_, destroyed, envVars>>

\* MutexLock l(&mutex_): Mutex::Lock returns
Acquire(t) ==
  /\ call[t].pc = "wait"
  /\ Mutex_Lock(mutex_[call[t].s], t)
  /\ mutex_' = [mutex_ EXCEPT ![call[t].s] = t]
  /\ call' = [call EXCEPT ![t].pc = "locked",
                          ![t].shard = shard_[call[t].s],
                          ![t].heap = heap]
  /\ UNCHANGED <<cacheVars, idVars, destroyed, envVars>>

\* The body of the method, ~MutexLock and the return
Complete(t) ==
  /\ call[t].pc = "locked"
  /\ CASE call[t].op = "Insert" ->
            InsertBody(call[t].key, Value_(allocs + 1), call[t].charge)
       [] call[t].op = "Lookup" -> LookupBody(call[t].key)
       [] call[t].op = "Release" -> ReleaseBody(call[t].handle)
       [] call[t].op = "Erase" -> EraseBody(call[t].key)
  /\ mutex_' = [mutex_ EXCEPT ![call[t].s] = Mutex_Unlock(@, t)]
  /\ call' = [call EXCEPT ![t] = IdleCall]
  /\ UNCHANGED <<idVars, destroyed, envVars>>

\* Two threads calling the operations on one shard
NextConc ==
  \/ \E t \in ShardThreads, key \in ConcKeys, charge \in ConcCharges :
       BeginInsert(t, key, charge, MaxConcEntries, MaxConcHandles)
  \/ \E t \in ShardThreads, key \in ConcKeys :
       BeginLookup(t, key, MaxConcHandles)
  \/ \E t \in ShardThreads, handle \in 1..MaxEntries : BeginRelease(t, handle)
  \/ \E t \in ShardThreads, key \in ConcKeys : BeginErase(t, key)
  \/ \E t \in ShardThreads : Acquire(t)
  \/ \E t \in ShardThreads : Complete(t)

SpecConc == Init /\ [][NextConc]_vars

\* Two threads calling the operations and Value on two shards, a third
\* calling NewId
NextLocks ==
  \/ \E t \in ShardThreads, key \in LockKeys, charge \in LockCharges :
       BeginInsert(t, key, charge, MaxLockEntries, MaxLockHandles)
  \/ \E t \in ShardThreads, key \in LockKeys :
       BeginLookup(t, key, MaxLockHandles)
  \/ \E t \in ShardThreads, handle \in 1..MaxEntries : BeginRelease(t, handle)
  \/ \E t \in ShardThreads, key \in LockKeys : BeginErase(t, key)
  \/ \E t \in ShardThreads : Acquire(t)
  \/ \E t \in ShardThreads : Complete(t)
  \/ \E t \in ShardThreads, handle \in 1..MaxEntries :
       /\ call[t].pc = "idle"
       /\ handles[handle] >
            Cardinality({u \in Pending({"Release"}) : call[u].handle = handle})
       /\ ValueCall(handle)
  \/ \E t \in IdThreads : Begun < MaxLockIds /\ NewIdLock(t)
  \/ \E t \in IdThreads : NewIdRead(t)
  \/ \E t \in IdThreads : NewIdWrite(t)
  \/ \E t \in IdThreads : NewIdReturn(t)

SpecLocks == Init /\ [][NextLocks]_vars

\* The threads of SpecLocks, and the destruction of the cache once every
\* call has returned; nothing is called on a destroyed cache
NextLife ==
  \/ destroyed = "no" /\ NextLocks
  \/ /\ \A t \in Threads : call[t].pc = "idle" /\ idpc[t] = "idle"
     /\ Destroy

SpecLife == Init /\ [][NextLife]_vars

\* The body of the call thread t is in, run with a deleter that calls
\* Lookup(key) on the cache for the key it is given: the result of the body
\* up to its return or, when stuck, up to the first call of the deleter
Body(t) ==
  LET c == call[t]
      L == View(c.s) @@ [stuck |-> FALSE]
  IN CASE c.op = "Insert" ->
            LRUCache_Insert(L, allocs + 1, c.key, HashSlice(c.key),
                            Value_(allocs + 1), c.charge)
       [] c.op = "Lookup" ->
            LRUCache_Lookup(L, c.key, HashSlice(c.key)) @@ [old |-> NULL]
       [] c.op = "Release" ->
            LRUCache_Release(L, c.handle) @@ [ret |-> NULL, old |-> NULL]
       [] c.op = "Erase" ->
            LRUCache_Erase(L, c.key, HashSlice(c.key)) @@ [ret |-> NULL]

\* The body runs to its return: no deleter is called
CompleteReturn(t) ==
  /\ call[t].pc = "locked"
  /\ ~Body(t).stuck
  /\ Complete(t)

\* The body runs up to (*e->deleter)(e->key(), e->value) in Unref, inside
\* MutexLock l(&mutex_); the deleter calls Lookup(key), which computes the
\* shard of the key and is about to lock its mutex_.  The handle given to
\* Release is spent; an Insert has not returned its handle.
DeleterCall(t) ==
  /\ call[t].pc = "locked"
  /\ \E R \in {Body(t)} :
       /\ R.stuck
       /\ shard_' = [shard_ EXCEPT ![call[t].s] = Fields(R)]
       /\ heap' = R.heap
       /\ deleted' = Count(R.calls)
       /\ allocs' = IF call[t].op = "Insert" THEN allocs + 1 ELSE allocs
       /\ handles' = IF call[t].op = "Release"
                     THEN [handles EXCEPT ![call[t].handle] = @ - 1]
                     ELSE handles
       /\ stamp' = Stamps(stamp, call[t].s, R)
       /\ gone' = Gone(R, IF call[t].op = "Erase" THEN "erased"
                          ELSE "replaced")
       /\ last' = [op |-> "deleter", key |-> R.calls[Len(R.calls)][2],
                   ret |-> NULL, old |-> R.old, evicted |-> R.evicted,
                   calls |-> R.calls]
       /\ call' = [call EXCEPT ![t] =
                     [IdleCall EXCEPT
                        !.pc = "wait", !.op = "Lookup",
                        !.key = R.calls[Len(R.calls)][2],
                        !.s = Shard(HashSlice(R.calls[Len(R.calls)][2]))]]
  /\ UNCHANGED <<idVars, mutex_, destroyed, envVars>>

\* Two threads calling the operations on one shard of a cache whose entries
\* have such a deleter
NextDeleter ==
  \/ \E t \in ShardThreads, key \in ConcKeys, charge \in ConcCharges :
       BeginInsert(t, key, charge, MaxConcEntries, MaxConcHandles)
  \/ \E t \in ShardThreads, key \in ConcKeys :
       BeginLookup(t, key, MaxConcHandles)
  \/ \E t \in ShardThreads, handle \in 1..MaxEntries : BeginRelease(t, handle)
  \/ \E t \in ShardThreads, key \in ConcKeys : BeginErase(t, key)
  \/ \E t \in ShardThreads : Acquire(t)
  \/ \E t \in ShardThreads : CompleteReturn(t)
  \/ \E t \in ShardThreads : DeleterCall(t)

SpecDeleter == Init /\ [][NextDeleter]_vars

\* Insert statement by statement, for the runs in which the eviction loop
\* is followed iteration by iteration.  The lines before the loop: the entry
\* is allocated and linked, a displaced entry Unref'ed; call[t].handle is
\* the local e.
InsertLink(t) ==
  /\ call[t].pc = "locked"
  /\ call[t].op = "Insert"
  /\ \E R \in {LRUCache_InsertLink(View(call[t].s), allocs + 1, call[t].key,
                                    HashSlice(call[t].key),
                                    Value_(allocs + 1), call[t].charge)} :
       /\ shard_' = [shard_ EXCEPT ![call[t].s] = Fields(R)]
       /\ heap' = R.heap
       /\ deleted' = Count(R.calls)
       /\ stamp' = Stamps(stamp, call[t].s, R)
       /\ gone' = Gone(R, "replaced")
       /\ last' = [NoOp EXCEPT !.op = "Insert", !.key = call[t].key,
                               !.old = R.old, !.calls = R.calls]
  /\ allocs' = allocs + 1
  /\ call' = [call EXCEPT ![t].pc = "evict", ![t].handle = allocs + 1]
  /\ UNCHANGED <<handles, idVars, mutex_, destroyed, envVars>>

\* The loop condition holds: one iteration
EvictStep(t) ==
  /\ call[t].pc = "evict"
  /\ shard_[call[t].s].usage_ > shard_[call[t].s].capacity_
  /\ shard_[call[t].s].lru_ # <<>>
  /\ \E R \in {EvictIteration(View(call[t].s) @@ [old |-> NULL])} :
       /\ shard_' = [shard_ EXCEPT ![call[t].s] = Fields(R)]
       /\ heap' = R.heap
       /\ deleted' = Count(R.calls)
       /\ stamp' = Stamps(stamp, call[t].s, R)
       /\ gone' = Gone(R, "replaced")
       /\ last' = [last EXCEPT !.evicted = @ \o R.evicted,
                               !.calls = @ \o R.calls]
  /\ UNCHANGED <<allocs, handles, call, idVars, mutex_, destroyed, envVars>>

\* The loop condition fails: return reinterpret_cast<Cache::Handle*>(e)
\* and ~MutexLock
InsertReturn(t) ==
  /\ call[t].pc = "evict"
  /\ ~(/\ shard_[call[t].s].usage_ > shard_[call[t].s].capacity_
       /\ shard_[call[t].s].lru_ # <<>>)
  /\ handles' = [handles EXCEPT ![call[t].handle] = 1]
  /\ last' = [last EXCEPT !.ret = call[t].handle]
  /\ mutex_' = [mutex_ EXCEPT ![call[t].s] = Mutex_Unlock(@, t)]
  /\ call' = [call EXCEPT ![t] = IdleCall]
  /\ UNCHANGED <<shard_, heap, allocs, deleted, stamp, gone, idVars,
                 destroyed, envVars>>

\* Lookup, Release and Erase have no loop but the chain walk of their one
\* table_ call: the body is one step
CompleteOther(t) ==
  /\ call[t].op # "Insert"
  /\ Complete(t)

\* The thread whose calls are followed statement by statement
LoopThreads == {1}

NextLoop ==
  \/ \E t \in LoopThreads, key \in ConcKeys, charge \in ConcCharges :
       BeginInsert(t, key, charge, MaxConcEntries, MaxConcHandles)
  \/ \E t \in LoopThreads, key \in ConcKeys :
       BeginLookup(t, key, MaxConcHandles)
  \/ \E t \in LoopThreads, handle \in 1..MaxEntries : BeginRelease(t, handle)
  \/ \E t \in LoopThreads, key \in ConcKeys : BeginErase(t, key)
  \/ \E t \in LoopThreads : Acquire(t)
  \/ \E t \in LoopThreads : InsertLink(t)
  \/ \E t \in LoopThreads : EvictStep(t)
  \/ \E t \in LoopThreads : InsertReturn(t)
  \/ \E t \in LoopThreads : CompleteOther(t)

\* A thread that holds a mutex_ is not suspended forever: the statement it
\* is at is executed.  Nothing is assumed of a thread that is in no call or
\* waits for the mutex_.
SpecLoop ==
  /\ Init
  /\ [][NextLoop]_vars
  /\ \A t \in LoopThreads :
       WF_<<cacheVars, concVars>>(InsertLink(t) \/ EvictStep(t)
                                   \/ InsertReturn(t) \/ CompleteOther(t))

-----------------------------------------------------------------------------
(* PosixEnv::Schedule and PosixEnv::BGThread.  An item is the (function,   *)
(* arg) of one Schedule call, named by the number of the call.  The        *)
(* pthread calls succeed (PthreadCall aborts the process otherwise).       *)
(* pthread_cond_wait releases mu_ and blocks, and gets mu_ again before it *)
(* returns; it may return without a signal.                                *)

\* The threads that call Schedule, and the background thread
SchedThreads == {1, 2}
BG == 4

\* Mutant: the signal wakes no thread
CondSignal_Lost(waiters) == waiters

\* pthread_cond_signal: one of the blocked threads, if any, is unblocked
CondSignal(waiters) ==
  IF waiters = {} THEN {} ELSE waiters \ {CHOOSE w \in waiters : TRUE}

\* Mutant: the item goes to the front of the queue
PushFront(q, item) == <<item>> \o q

\* queue_.push_back(BGItem()) with function and arg filled in
PushBack(q, item) == Append(q, item)

\* Schedule(function, arg) is called
ScheduleCall(t) ==
  /\ spc[t] = "idle"
  /\ scheduled < MaxItems
  /\ scheduled' = scheduled + 1
  /\ sitem' = [sitem EXCEPT ![t] = scheduled + 1]
  /\ spc' = [spc EXCEPT ![t] = "lock"]
  /\ UNCHANGED <<mu_, bgsignal_, started_bgthread_, queue_, bgpc, bgitem,
                 created, enq, ran>>

\* pthread_mutex_lock(&mu_) returns
ScheduleLock(t) ==
  /\ spc[t] = "lock"
  /\ mu_ = NoThread
  /\ mu_' = t
  /\ spc' = [spc EXCEPT ![t] = "start"]
  /\ UNCHANGED <<bgsignal_, started_bgthread_, queue_, sitem, bgpc, bgitem,
                 created, scheduled, enq, ran>>

\* if (!started_bgthread_) { started_bgthread_ = true; pthread_create }
ScheduleStart(t) ==
  /\ spc[t] = "start"
  /\ IF ~started_bgthread_
     THEN /\ started_bgthread_' = TRUE
          /\ created' = created + 1
          /\ bgpc' = "lock"
     ELSE UNCHANGED <<started_bgthread_, created, bgpc>>
  /\ spc' = [spc EXCEPT ![t] = "signal"]
  /\ UNCHANGED <<mu_, bgsignal_, queue_, sitem, bgitem, scheduled, enq, ran>>

\* if (queue_.empty()) pthread_cond_signal(&bgsignal_)
ScheduleSignal(t) ==
  /\ spc[t] = "signal"
  /\ bgsignal_' = IF queue_ = <<>> THEN CondSignal(bgsignal_) ELSE bgsignal_
  /\ spc' = [spc EXCEPT ![t] = "push"]
  /\ UNCHANGED <<mu_, started_bgthread_, queue_, sitem, bgpc, bgitem,
                 created, scheduled, enq, ran>>

SchedulePush(t) ==
  /\ spc[t] = "push"
  /\ queue_' = PushBack(queue_, sitem[t])
  /\ enq' = Append(enq, sitem[t])
  /\ spc' = [spc EXCEPT ![t] = "unlock"]
  /\ UNCHANGED <<mu_, bgsignal_, started_bgthread_, sitem, bgpc, bgitem,
                 created, scheduled, ran>>

\* pthread_mutex_unlock(&mu_) and return
ScheduleUnlock(t) ==
  /\ spc[t] = "unlock"
  /\ mu_' = NoThread
  /\ spc' = [spc EXCEPT ![t] = "idle"]
  /\ UNCHANGED <<bgsignal_, started_bgthread_, queue_, sitem, bgpc, bgitem,
                 created, scheduled, enq, ran>>

\* BGThread: pthread_mutex_lock(&mu_) at the top of while (true) returns
BGLock ==
  /\ bgpc = "lock"
  /\ mu_ = NoThread
  /\ mu_' = BG
  /\ bgpc' = "check"
  /\ UNCHANGED <<bgsignal_, started_bgthread_, queue_, spc, sitem, bgitem,
                 created, scheduled, enq, ran>>

\* while (queue_.empty()) pthread_cond_wait: blocks and releases mu_;
\* otherwise the front item is taken and popped
BGCheck ==
  /\ bgpc = "check"
  /\ IF queue_ = <<>>
     THEN /\ bgsignal_' = bgsignal_ \cup {BG}
          /\ mu_' = NoThread
          /\ bgpc' = "wait"
          /\ UNCHANGED <<queue_, bgitem>>
     ELSE /\ bgitem' = Head(queue_)
          /\ queue_' = Tail(queue_)
          /\ bgpc' = "unlock"
          /\ UNCHANGED <<bgsignal_, mu_>>
  /\ UNCHANGED <<started_bgthread_, spc, sitem, created, scheduled, enq, ran>>

\* pthread_cond_wait returns without a signal
BGSpurious ==
  /\ bgpc = "wait"
  /\ BG \in bgsignal_
  /\ bgsignal_' = bgsignal_ \ {BG}
  /\ UNCHANGED <<mu_, started_bgthread_, queue_, spc, sitem, bgpc, bgitem,
                 created, scheduled, enq, ran>>

\* pthread_cond_wait, unblocked, gets mu_ again and returns
BGWake ==
  /\ bgpc = "wait"
  /\ BG \notin bgsignal_
  /\ mu_ = NoThread
  /\ mu_' = BG
  /\ bgpc' = "check"
  /\ UNCHANGED <<bgsignal_, started_bgthread_, queue_, spc, sitem, bgitem,
                 created, scheduled, enq, ran>>

\* pthread_mutex_unlock(&mu_)
BGUnlock ==
  /\ bgpc = "unlock"
  /\ mu_' = NoThread
  /\ bgpc' = "run"
  /\ UNCHANGED <<bgsignal_, started_bgthread_, queue_, spc, sitem, bgitem,
                 created, scheduled, enq, ran>>

\* (*function)(arg) runs and returns
BGRun ==
  /\ bgpc = "run"
  /\ ran' = Append(ran, bgitem)
  /\ bgitem' = NULL
  /\ bgpc' = "lock"
  /\ UNCHANGED <<mu_, bgsignal_, started_bgthread_, queue_, spc, sitem,
                 created, scheduled, enq>>

BGThread == BGLock \/ BGCheck \/ BGWake \/ BGUnlock \/ BGRun

Schedule(t) ==
  \/ ScheduleLock(t) \/ ScheduleStart(t) \/ ScheduleSignal(t)
  \/ SchedulePush(t) \/ ScheduleUnlock(t)

\* The steps of Schedule and BGThread leave the cache alone
SchedFrame ==
  UNCHANGED <<cacheVars, idVars, concVars, destroyed, lockVars, tableVars,
              requested>>

NextSched ==
  \/ \E t \in SchedThreads : ScheduleCall(t) /\ SchedFrame
  \/ \E t \in SchedThreads : Schedule(t) /\ SchedFrame
  \/ BGThread /\ SchedFrame
  \/ BGSpurious /\ SchedFrame

SpecSched == Init /\ [][NextSched]_vars

\* Fair scheduling: a thread that can take a step takes one, and a thread
\* waiting for mu_ gets it if mu_ is free again and again.  Nothing obliges
\* a caller to call Schedule, nor pthread_cond_wait to return unsignalled.
FairSched ==
  /\ \A t \in SchedThreads :
       /\ SF_schedVars(ScheduleLock(t))
       /\ WF_schedVars(ScheduleStart(t) \/ ScheduleSignal(t)
                         \/ SchedulePush(t) \/ ScheduleUnlock(t))
  /\ SF_schedVars(BGLock \/ BGWake)
  /\ WF_schedVars(BGCheck \/ BGUnlock \/ BGRun)

SpecSchedFair == SpecSched /\ FairSched

-----------------------------------------------------------------------------
(* PosixEnv::LockFile and UnlockFile with PosixLockTable.  open() and the  *)
(* fcntl lock succeed or fail as the file system and other processes have  *)
(* it.  A PosixFileLock object is named by its file name and the number of *)
(* the successful LockFile call that made it.                              *)

\* Mutant: the name is taken to be new whether it is in the set or not
PosixLockTable_Insert_Always(files, fname) ==
  [ok |-> TRUE, files |-> files \cup {fname}]

\* locked_files_.insert(fname).second, under PosixLockTable::mu_
PosixLockTable_Insert(files, fname) ==
  [ok |-> fname \notin files, files |-> files \cup {fname}]

\* locked_files_.erase(fname), under PosixLockTable::mu_
PosixLockTable_Remove(files, fname) == files \ {fname}

\* LockFile(fname, lock): *lock = NULL; open().  With fd < 0 the call
\* returns the IOError.
LockFileOpen(t, fname) ==
  /\ lpc[t] = "idle"
  /\ lockcalls < MaxLockCalls
  /\ lockcalls' = lockcalls + 1
  /\ lfile' = [lfile EXCEPT ![t] = fname]
  /\ \E fd_ok \in BOOLEAN :
       IF fd_ok
       THEN /\ lpc' = [lpc EXCEPT ![t] = "insert"]
            /\ lres' = [lres EXCEPT ![t] =
                          [ok |-> TRUE, lock |-> NULL, msg |-> ""]]
       ELSE /\ lpc' = [lpc EXCEPT ![t] = "idle"]
            /\ lres' = [lres EXCEPT ![t] =
                          [ok |-> FALSE, lock |-> NULL, msg |-> "errno"]]
  /\ UNCHANGED <<locked_files_, held, grants>>

\* else if (!locks_.Insert(fname)) { close(fd); result = IOError(already
\* held by process) }, and the return
LockFileInsert(t) ==
  /\ lpc[t] = "insert"
  /\ \E R \in {PosixLockTable_Insert(locked_files_, lfile[t])} :
       /\ locked_files_' = R.files
       /\ IF R.ok
          THEN /\ lpc' = [lpc EXCEPT ![t] = "oslock"]
               /\ UNCHANGED lres
          ELSE /\ lpc' = [lpc EXCEPT ![t] = "idle"]
               /\ lres' = [lres EXCEPT ![t] =
                             [ok |-> FALSE, lock |-> NULL,
                              msg |-> "already held by process"]]
  /\ UNCHANGED <<lfile, held, grants, lockcalls>>

\* else if (LockOrUnlock(fd, true) == -1) { result = IOError; close(fd);
\* (locks_.Remove is the next step) } else { my_lock = new PosixFileLock;
\* ... *lock = my_lock }, and the return
LockFileOS(t) ==
  /\ lpc[t] = "oslock"
  /\ \E locked \in BOOLEAN :
       IF locked
       THEN \E my_lock \in {[name |-> lfile[t],
                             id |-> grants[lfile[t]] + 1]} :
              /\ held' = held \cup {my_lock}
              /\ grants' = [grants EXCEPT ![lfile[t]] = @ + 1]
              /\ lres' = [lres EXCEPT ![t] =
                            [ok |-> TRUE, lock |-> my_lock, msg |-> ""]]
              /\ lpc' = [lpc EXCEPT ![t] = "idle"]
       ELSE /\ lpc' = [lpc EXCEPT ![t] = "remove"]
            /\ UNCHANGED <<held, grants, lres>>
  /\ UNCHANGED <<locked_files_, lfile, lockcalls>>

\* locks_.Remove(fname) } after the failed fcntl, and the return
LockFileRemove(t) ==
  /\ lpc[t] = "remove"
  /\ locked_files_' = PosixLockTable_Remove(locked_files_, lfile[t])
  /\ lres' = [lres EXCEPT ![t] =
                [ok |-> FALSE, lock |-> NULL, msg |-> "errno"]]
  /\ lpc' = [lpc EXCEPT ![t] = "idle"]
  /\ UNCHANGED <<lfile, held, grants, lockcalls>>

LockFile(t) == LockFileInsert(t) \/ LockFileOS(t) \/ LockFileRemove(t)

\* UnlockFile(lock) is called with a lock that LockFile returned and that
\* has not been unlocked; LockOrUnlock(my_lock->fd_, false)
UnlockFileCall(t, my_lock) ==
  /\ lpc[t] = "idle"
  /\ my_lock \in held
  /\ held' = held \ {my_lock}
  /\ lfile' = [lfile EXCEPT ![t] = my_lock.name]
  /\ \E unlocked \in BOOLEAN :
       lres' = [lres EXCEPT ![t] =
                  [ok |-> unlocked, lock |-> NULL,
                   msg |-> IF unlocked THEN "" ELSE "errno"]]
  /\ lpc' = [lpc EXCEPT ![t] = "unlock"]
  /\ UNCHANGED <<locked_files_, grants, lockcalls>>

\* locks_.Remove(my_lock->name_); close; delete my_lock; return result
UnlockFileRemove(t) ==
  /\ lpc[t] = "unlock"
  /\ locked_files_' = PosixLockTable_Remove(locked_files_, lfile[t])
  /\ lpc' = [lpc EXCEPT ![t] = "idle"]
  /\ UNCHANGED <<lfile, lres, held, grants, lockcalls>>

\* The steps of LockFile and UnlockFile leave the cache and the queue alone
LockFrame ==
  UNCHANGED <<cacheVars, idVars, concVars, destroyed, schedVars, tableVars,
              requested>>

NextLock ==
  \/ \E t \in LockThreads, fname \in FileNames :
       LockFileOpen(t, fname) /\ LockFrame
  \/ \E t \in LockThreads : LockFile(t) /\ LockFrame
  \/ \E t \in LockThreads, my_lock \in held :
       UnlockFileCall(t, my_lock) /\ LockFrame
  \/ \E t \in LockThreads : UnlockFileRemove(t) /\ LockFrame

SpecLock == Init /\ [][NextLock]_vars

-----------------------------------------------------------------------------
(* NewLRUCache: the construction of a cache for any capacity of a size_t   *)

\* new ShardedLRUCache(capacity): every shard is constructed and given
\* per_shard by SetCapacity; last_id_ is 0.  The cache it stands in for has
\* no entry.
NewLRUCache(capacity) ==
  /\ destroyed = "no"
  /\ heap = <<>>
  /\ shard_' = [s \in Shards |-> LRUCache_New(PerShard(capacity))]
  /\ requested' = capacity
  /\ last_id_' = 0
  /\ UNCHANGED <<heap, allocs, deleted, handles, stamp, gone, last>>
  /\ UNCHANGED <<id_mutex_, idpc, idtmp, ids, concVars, destroyed>>
  /\ UNCHANGED <<schedVars, lockVars, tableVars>>

NextNew == \E capacity \in 0..(2 ^ SizeBits - 1) : NewLRUCache(capacity)

SpecNew == Init /\ [][NextNew]_vars

-----------------------------------------------------------------------------
(* HandleTable on its own: Insert and Remove called on one table_ with the *)
(* arguments LRUCache gives them, a newly malloc'ed LRUHandle for Insert,  *)
(* a key and its hash for Remove.  As in LRUCache, the caller disposes of  *)
(* the entry the call returns, and malloc may give its address out again.  *)

\* The address malloc returns: one that is not allocated
NewNode == CHOOSE h \in 1..(Cardinality(TableKeys) + 1) : h \notin DOMAIN nodes

\* LRUHandle* Insert(LRUHandle* h): tlast.ret is the pointer returned
TableInsert(key) ==
  /\ LET h == NewNode
         H == (h :> [key |-> key, hash |-> HashSlice(key)]) @@ nodes
     IN \E ins \in {HandleTable_Insert(table_, H, h)} :
          /\ table_' = ins.table
          /\ nodes' = [x \in (DOMAIN H) \ {ins.old} |-> H[x]]
          /\ tlast' = [op |-> "Insert", key |-> key, h |-> h, ret |-> ins.old]
  /\ UNCHANGED <<cacheVars, idVars, concVars, destroyed, schedVars, lockVars,
                 requested>>

\* LRUHandle* Remove(const Slice& key, uint32_t hash)
TableRemove(key) ==
  /\ \E rem \in {HandleTable_Remove(table_, nodes, key, HashSlice(key))} :
       /\ table_' = rem.table
       /\ nodes' = [x \in (DOMAIN nodes) \ {rem.result} |-> nodes[x]]
       /\ tlast' = [op |-> "Remove", key |-> key, h |-> NULL,
                    ret |-> rem.result]
  /\ UNCHANGED <<cacheVars, idVars, concVars, destroyed, schedVars, lockVars,
                 requested>>

NextTable ==
  \/ \E key \in TableKeys : TableInsert(key)
  \/ \E key \in TableKeys : TableRemove(key)

SpecTable == Init /\ [][NextTable]_vars

-----------------------------------------------------------------------------
(* Notions the properties are stated in *)

ShardOfKey(key) == Shard(HashSlice(key))

\* The entries reachable from the table of shard s
Reachable(s) == TableEntries(shard_[s].table_)

\* The handle a Lookup(key) returns when the shards are sh and the heap is hp:
\* LRUCache::Lookup returns e = table_.Lookup(key, hash) as the handle
LookupIn(sh, hp, key) ==
  HandleTable_Lookup(sh[ShardOfKey(key)].table_, hp, key, HashSlice(key))

\* The handle a Lookup(key) issued in the current state returns
LookupNow(key) == LookupIn(shard_, heap, key)

RECURSIVE SumCharge(_)
SumCharge(S) ==
  IF S = {} THEN 0
  ELSE LET e == CHOOSE x \in S : TRUE IN heap[e].charge + SumCharge(S \ {e})

\* The deleter calls the last operation made for entry e
CallsFor(op, e) == {i \in 1..Len(op.calls) : op.calls[i][1] = e}

Fits(s) == shard_[s].usage_ <= shard_[s].capacity_

-----------------------------------------------------------------------------
(* C1 *)

-----------------------------------------------------------------------------
(* C2 *)

\* C2: in every step, the deleter is called for an entry at most once, and it
\* is called exactly for the entries whose refs go from 1 to 0 in that step
\* (they are free'd), with the entry's key and value; over the whole
\* behaviour no entry gets a second call, an allocated entry has refs >= 1
\* and no call yet, and a free'd entry never comes back.
C2_DeleterExactlyOnceAtZero ==
  [][\A e \in 1..MaxEntries :
       LET n == Cardinality(CallsFor(last', e))
           dies == e \in DOMAIN heap /\ e \notin DOMAIN heap'
       IN /\ n <= 1
          /\ (n = 1) <=> dies
          /\ dies => /\ heap[e].refs = 1
                     /\ \E i \in CallsFor(last', e) :
                          last'.calls[i] = <<e, heap[e].key, heap[e].value>>
          /\ deleted'[e] = deleted[e] + n
          /\ deleted'[e] <= 1
          /\ e \in DOMAIN heap' => heap'[e].refs >= 1 /\ deleted'[e] = 0
          /\ (e <= allocs /\ e \notin DOMAIN heap) => e \notin DOMAIN heap'
    ]_vars

\* A Release of the last reference to an entry, whose deleter has just run
C2_Witness ==
  /\ last.op = "Release"
  /\ Len(last.calls) = 1
  /\ deleted[last.ret] = 1
  /\ last.ret \notin DOMAIN heap

-----------------------------------------------------------------------------
(* C3 *)

\* C3: after every operation, in every shard, the charges of the entries
\* reachable from the table sum to at most capacity_, unless the table holds
\* a single entry whose charge alone exceeds capacity_.
C3_ReachableChargeWithinCapacity ==
  \A s \in Shards :
    LET T == Reachable(s)
    IN \/ SumCharge(T) <= shard_[s].capacity_
       \/ \E e \in T : T = {e} /\ heap[e].charge > shard_[s].capacity_

\* An Insert whose eviction loop removed entries and left some reachable
C3_Witness ==
  /\ last.op = "Insert"
  /\ last.evicted # <<>>
  /\ Cardinality(Reachable(ShardOfKey(last.key))) >= 2

-----------------------------------------------------------------------------
(* C4 *)

\* C4: when the eviction loop of an Insert removes an entry B, every entry A
\* that was reachable in the shard before the Insert, was inserted before B
\* and was not returned by a Lookup since B's insertion has been removed
\* before B by the same loop (or replaced by the Insert): B is never evicted
\* while such an A is still reachable.
C4_StrictLRU ==
  [][last'.op = "Insert" =>
       \A i \in 1..Len(last'.evicted) :
         \A A \in Reachable(ShardOfKey(last'.key)) :
           (A < last'.evicted[i] /\ stamp[A] < last'.evicted[i] /\ A # last'.old)
             => \E j \in 1..(i - 1) : last'.evicted[j] = A
    ]_vars

\* An Insert that evicted an entry A and left a younger entry B, not the new
\* one, reachable
C4_Witness ==
  /\ last.op = "Insert"
  /\ \E i \in 1..Len(last.evicted) :
       \E B \in Reachable(ShardOfKey(last.key)) :
         last.evicted[i] < B /\ B # last.ret

-----------------------------------------------------------------------------
(* C5 *)

\* What a caller holding an unreleased handle to e relies on: e is allocated,
\* Value returns the value given to its Insert, its deleter has not run.
HandleValid(e) ==
  /\ e \in DOMAIN heap
  /\ handles[e] > 0
  /\ Value(e) = Value_(e)
  /\ deleted[e] = 0

\* e is linked neither in the table nor in the ring of its shard, and no
\* Lookup returns it
UnreachableIn(sh, hp, e) ==
  /\ \A s \in Shards :
       e \notin TableEntries(sh[s].table_) /\ e \notin Range(sh[s].lru_)
  /\ e \in DOMAIN hp => LookupIn(sh, hp, hp[e].key) # e

Unreachable(e) == UnreachableIn(shard_, heap, e)

\* C5: an entry the eviction loop removes while a handle to it is unreleased
\* is unreachable (a Lookup of its key returns not-found when the Insert
\* returns) but stays allocated, with its value and without a deleter call,
\* for as long as a handle to it is unreleased; the Release of its last
\* handle frees it and makes the one deleter call it ever gets.
C5_EvictedWhileHeld ==
  /\ last.op = "Insert" =>
       \A i \in 1..Len(last.evicted) :
         LET e == last.evicted[i]
         IN handles[e] > 0 =>
              /\ HandleValid(e)
              /\ gone[e] = "evicted"
              /\ LookupNow(heap[e].key) = NULL
  /\ \A e \in 1..MaxEntries :
       gone[e] = "evicted" => HandleValid(e) /\ Unreachable(e)
  /\ (last.op = "Release" /\ handles[last.ret] = 0 /\ Unreachable(last.ret)) =>
       /\ last.ret \notin DOMAIN heap
       /\ deleted[last.ret] = 1
       /\ Len(last.calls) = 1
       /\ last.calls[1][1] = last.ret
       /\ last.calls[1][3] = Value_(last.ret)

\* An Insert of another key has just evicted an entry whose handle is held
C5_Witness ==
  /\ last.op = "Insert"
  /\ \E i \in 1..Len(last.evicted) :
       LET e == last.evicted[i]
       IN e # last.ret /\ handles[e] > 0 /\ gone[e] = "evicted"

-----------------------------------------------------------------------------
(* C6, under SpecId *)

Returned == UNION {Range(ids[t]) : t \in Threads}

RECURSIVE Calls(_)
Calls(T) ==
  IF T = {} THEN 0
  ELSE LET t == CHOOSE x \in T : TRUE IN Len(ids[t]) + Calls(T \ {t})

\* C6: the values NewId has returned to all threads are distinct; together
\* with the values computed by calls that have not returned yet they are
\* exactly 1 .. last_id_, so that N completed calls with none in progress
\* have returned exactly 1 .. N; each thread sees strictly increasing values.
C6_NewIdContiguous ==
  /\ \A t \in Threads : \A i, j \in 1..Len(ids[t]) : i < j => ids[t][i] < ids[t][j]
  /\ \A t, u \in Threads : t # u => Range(ids[t]) \cap Range(ids[u]) = {}
  /\ Returned \cup {idtmp[t] : t \in {u \in Threads : idpc[u] = "unlock"}}
       = 1..last_id_
  /\ (\A t \in Threads : idpc[t] = "idle") => Returned = 1..Calls(Threads)

\* Two threads' calls interleaved with each other and with shard operations
C6_Witness ==
  /\ allocs > 0
  /\ \E t, u \in Threads :
       /\ Len(ids[t]) = 2 /\ Len(ids[u]) = 1
       /\ ids[t][1] < ids[u][1] /\ ids[u][1] < ids[t][2]

-----------------------------------------------------------------------------
(* C7 *)

\* C7, as claimed: when an Insert of key a into a shard that holds nothing
\* else is followed, with no operation in between, by an Insert of another
\* key b, and both charges fit capacity_ alone but not together, then after
\* the second Insert a is not reachable and b is: Lookup(b) returns b's
\* entry.
C7_SecondInsertStays ==
  [][(/\ last.op = "Insert" /\ last'.op = "Insert" /\ allocs' = allocs + 1
      /\ last'.key # last.key
      /\ ShardOfKey(last'.key) = ShardOfKey(last.key)
      /\ DOMAIN heap = {last.ret}
      /\ Reachable(ShardOfKey(last.key)) = {last.ret}
      /\ heap[last.ret].charge <= shard_[ShardOfKey(last.key)].capacity_
      /\ heap'[last'.ret].charge <= shard_[ShardOfKey(last.key)].capacity_
      /\ heap[last.ret].charge + heap'[last'.ret].charge
           > shard_[ShardOfKey(last.key)].capacity_)
     => /\ LookupIn(shard_', heap', last.key) = NULL
        /\ LookupIn(shard_', heap', last'.key) = last'.ret
        /\ heap'[last'.ret].value = Value_(allocs')
    ]_vars

-----------------------------------------------------------------------------
(* C8 *)

\* What holds of the entry old that an Insert of the same key has replaced
Replaced(old) ==
  /\ Unreachable(old)
  /\ handles[old] = 0 =>
       /\ old \notin DOMAIN heap
       /\ deleted[old] = 1
       /\ \E i \in CallsFor(last, old) : last.calls[i][3] = Value_(old)
  /\ handles[old] > 0 => HandleValid(old) /\ gone[old] = "replaced"

\* An entry that was replaced or erased while handles to it were unreleased
\* stays valid; it is free'd, with its one deleter call, by the Release of
\* the last handle.
RetiredHeld(how) ==
  /\ \A e \in 1..MaxEntries :
       gone[e] = how => HandleValid(e) /\ Unreachable(e)
  /\ \A e \in 1..allocs :
       e \notin DOMAIN heap => deleted[e] = 1 /\ handles[e] = 0

-----------------------------------------------------------------------------
(* C9 *)

\* C9: every Erase(k) that finds an entry leaves it out of table and ring
\* and Lookup(k) returning not-found; it has free'd the entry, with its one
\* deleter call, exactly if no handle to it was unreleased; after every step
\* an erased entry with unreleased handles is still valid and unreachable,
\* and an entry is free'd only with no handle left and one deleter call; a
\* key for which Lookup returns not-found keeps doing so through every step
\* that is not an Insert of that key.
C9_Erase ==
  [][/\ \A e \in 1..MaxEntries :
          /\ (last'.op = "Erase" /\ last'.old = e) =>
               /\ e = LookupNow(last'.key)
               /\ UnreachableIn(shard_', heap', e)
               /\ LookupIn(shard_', heap', last'.key) = NULL
               /\ (handles[e] = 0) <=> (e \notin DOMAIN heap')
               /\ handles'[e] = handles[e]
               /\ handles[e] = 0 => deleted'[e] = 1 /\ Len(last'.calls) = 1
               /\ handles[e] > 0 => HandleValid(e)' /\ gone'[e] = "erased"
          /\ gone'[e] = "erased" =>
               HandleValid(e)' /\ UnreachableIn(shard_', heap', e)
          /\ (e <= allocs' /\ e \notin DOMAIN heap') =>
               deleted'[e] = 1 /\ handles'[e] = 0
     /\ \A key \in Keys :
          (LookupNow(key) = NULL /\ ~(last'.op = "Insert" /\ last'.key = key))
            => LookupIn(shard_', heap', key) = NULL
    ]_vars

\* An Erase has removed an entry to which a handle is unreleased
C9_Witness ==
  /\ last.op = "Erase"
  /\ last.old # NULL
  /\ handles[last.old] > 0
  /\ gone[last.old] = "erased"

-----------------------------------------------------------------------------
(* C10 *)

\* C10: a Lookup or an Erase of a key that has no reachable entry returns
\* not-found (removes nothing) and leaves every shard's table, ring and
\* usage_, every entry (its refs included), the callers' handles and the
\* deleter calls as they were.
C10_MissChangesNothing ==
  [][\A key \in Keys :
       (/\ last'.op \in {"Lookup", "Erase"}
        /\ last'.key = key
        /\ HandleTable_Lookup(shard_[ShardOfKey(key)].table_, heap,
                              key, HashSlice(key)) = NULL)
       => /\ last'.ret = NULL /\ last'.old = NULL /\ last'.calls = <<>>
          /\ UNCHANGED <<shard_, heap, deleted, handles, allocs>>
    ]_vars

\* A Lookup that walked a non-empty chain and found no entry of its key
C10_Witness ==
  /\ last.op = "Lookup"
  /\ last.ret = NULL
  /\ LET T == shard_[ShardOfKey(last.key)].table_
     IN T.list_[BitAnd(HashSlice(last.key), T.length_ - 1)] # <<>>

-----------------------------------------------------------------------------
(* C11 *)

\* C11, as claimed: a Release(handle) takes the refs of the handle's entry
\* down by one and frees the entry, with a deleter call, exactly if refs
\* reaches zero; every shard's table, ring and usage_ and every other
\* entry are after the Release what they were before it, also when the
\* entry is free'd.
C11_ReleaseChangesNothingElse ==
  [][last'.op = "Release" =>
       LET e == last'.ret
       IN /\ (heap[e].refs = 1) <=> (e \notin DOMAIN heap')
          /\ (e \notin DOMAIN heap') <=> (Len(last'.calls) = 1)
          /\ e \in DOMAIN heap' =>
               heap'[e] = [heap[e] EXCEPT !.refs = @ - 1]
          /\ \A x \in (DOMAIN heap) \ {e} :
               x \in DOMAIN heap' /\ heap'[x] = heap[x]
          /\ shard_' = shard_
    ]_vars

-----------------------------------------------------------------------------
(* C12, under SpecDtor *)

\* C12: when the cache is destroyed with every handle released, no assert
\* of the destructor fails: every entry in a ring has refs = 1; the
\* destructor calls the deleter exactly once for each of them and for no
\* other entry; afterwards no entry is allocated, every entry ever inserted
\* has had exactly one deleter call, and usage_ is 0 in every shard.
C12_DestroyFreesAll ==
  [][(last'.op = "~ShardedLRUCache" /\ Held = 0) =>
       LET ring == UNION {Range(shard_[s].lru_) : s \in Shards}
       IN /\ \A e \in ring : e \in DOMAIN heap /\ heap[e].refs = 1
          /\ destroyed' = "yes"
          /\ \A e \in ring : Cardinality(CallsFor(last', e)) = 1
          /\ \A i \in 1..Len(last'.calls) : last'.calls[i][1] \in ring
          /\ heap' = <<>>
          /\ \A e \in 1..allocs : deleted'[e] = 1
          /\ \A s \in Shards : shard_'[s].usage_ = 0
    ]_vars

\* A cache destroyed with all handles released: two entries were in the ring
\* and another one had been free'd before
C12_Witness ==
  /\ last.op = "~ShardedLRUCache"
  /\ Held = 0
  /\ destroyed = "yes"
  /\ Len(last.calls) = 2
  /\ allocs = 3

-----------------------------------------------------------------------------
(* C13 *)

\* The entries of heap hp that belong to shard s
EntriesOf(hp, s) == {e \in DOMAIN hp : Shard(hp[e].hash) = s}

\* The shard and the entries that thread t found when it got the lock
Snapshot(t) ==
  call[t].shard @@ [heap |-> call[t].heap, calls |-> <<>>, evicted |-> <<>>]

\* The operation of thread t's call run alone on what t found when it got
\* the lock
Sequential(t) ==
  CASE call[t].op = "Insert" ->
         LRUCache_Insert(Snapshot(t), allocs + 1, call[t].key,
                         HashSlice(call[t].key), Value_(allocs + 1),
                         call[t].charge)
    [] call[t].op = "Lookup" ->
         LRUCache_Lookup(Snapshot(t), call[t].key, HashSlice(call[t].key))
         @@ [old |-> NULL]
    [] call[t].op = "Release" ->
         LRUCache_Release(Snapshot(t), call[t].handle)
         @@ [ret |-> call[t].handle, old |-> NULL]
    [] call[t].op = "Erase" ->
         LRUCache_Erase(Snapshot(t), call[t].key, HashSlice(call[t].key))
         @@ [ret |-> NULL]

\* Thread t's call returns in this step
Returns(t) == call[t].pc = "locked" /\ call'[t].pc = "idle"

\* Operations on one shard are linearized in the order of their getting the
\* lock: a shard and its entries change only in the step in which the holder
\* of its lock returns, and then the result of the call, its deleter calls,
\* the shard and its entries are those of the operation run alone on what
\* the thread found when it got the lock.
Linearized ==
  /\ \A s \in Shards :
       (shard_'[s] # shard_[s]
          \/ \E e \in EntriesOf(heap, s) \cup EntriesOf(heap', s) :
               e \notin DOMAIN heap \/ e \notin DOMAIN heap'
                 \/ heap'[e] # heap[e])
       => \E t \in Threads : Returns(t) /\ call[t].s = s /\ mutex_[s] = t
  /\ \A t \in Threads :
       Returns(t) =>
         \E R \in {Sequential(t)} :
           /\ shard_'[call[t].s] = Fields(R)
           /\ last'.op = call[t].op
           /\ last'.ret = R.ret
           /\ last'.old = R.old
           /\ last'.calls = R.calls
           /\ EntriesOf(heap', call[t].s) = EntriesOf(R.heap, call[t].s)
           /\ \A e \in EntriesOf(heap', call[t].s) : heap'[e] = R.heap[e]

-----------------------------------------------------------------------------
(* C14 *)

\* The locks thread t holds: shard locks by the shard, "id" for id_mutex_
LocksHeld(t) ==
  {s \in Shards : mutex_[s] = t} \cup (IF id_mutex_ = t THEN {"id"} ELSE {})

\* What Complete(t) needs to be enabled: t is in the body of its operation,
\* and the body, which takes no lock and waits for nothing, has its
\* precondition (a handle to release is unreleased) and is within the bounds
CanReturn(t) ==
  /\ call[t].pc = "locked"
  /\ destroyed = "no"
  /\ call[t].op = "Insert" => allocs < MaxEntries /\ Held < MaxHandles
  /\ call[t].op = "Lookup" => Held < MaxHandles
  /\ call[t].op = "Release" => handles[call[t].handle] > 0

\* C14: no thread holds more than one lock at a time (never two shard
\* locks, never a shard lock and the NewId lock); a held lock belongs to a
\* thread that is in the body of its operation and can return, a thread
\* waiting for a free lock can get it, so no set of calls is stuck; and a
\* NewId call can take each of its steps whoever holds the shard locks.
C14_OneLockNoDeadlock ==
  /\ \A t \in Threads : Cardinality(LocksHeld(t)) <= 1
  /\ \A s \in Shards :
       mutex_[s] # NoThread =>
         /\ call[mutex_[s]].pc = "locked"
         /\ call[mutex_[s]].s = s
  /\ \A t \in Threads :
       /\ call[t].pc = "locked" =>
            mutex_[call[t].s] = t /\ CanReturn(t)
       /\ call[t].pc = "wait" =>
            IF mutex_[call[t].s] = NoThread
            THEN ENABLED Acquire(t)
            ELSE mutex_[call[t].s] # t /\ CanReturn(mutex_[call[t].s])
  /\ id_mutex_ # NoThread => idpc[id_mutex_] \in {"read", "write", "unlock"}
  /\ \A t \in Threads :
       /\ idpc[t] # "idle" => id_mutex_ = t
       /\ idpc[t] = "read" => ENABLED NewIdRead(t)
       /\ idpc[t] = "write" => ENABLED NewIdWrite(t)
       /\ idpc[t] = "unlock" => ENABLED NewIdReturn(t)
       /\ (idpc[t] = "idle" /\ id_mutex_ = NoThread /\ Begun < MaxLockIds) =>
            ENABLED NewIdLock(t)

\* Every shard lock is held by a thread in an operation while another
\* thread, holding id_mutex_, has computed the id that NewId returns
C14_Witness ==
  /\ \A s \in Shards : mutex_[s] \in ShardThreads
  /\ \E t \in IdThreads :
       /\ id_mutex_ = t
       /\ idpc[t] = "unlock"
       /\ LocksHeld(t) = {"id"}

-----------------------------------------------------------------------------
(* C15 *)

\* The entries of ring a that are in ring b too, in the order of a
Common(a, b) == SelectSeq(a, LAMBDA x : x \in Range(b))

\* The entries of the ring that come before entry x (all of them if x is
\* not in the ring)
Before(ring, x) ==
  {ring[i] : i \in {j \in 1..Len(ring) : \A k \in 1..j : ring[k] # x}}

\* C15: a Lookup that finds entry e adds 1 to e's refs, puts e at the
\* most-recently-used end of the ring, keeps the order of the other ring
\* entries, and changes neither the table, nor usage_, nor another entry.
\* In every other step the entries that stay in a ring keep their order.
\* The eviction loop removes entries in ring order: when it removes x, every
\* entry that was before x in the ring has been removed before x (or is the
\* entry the Insert replaced); so an entry looked up after B's insertion,
\* which is after B in the ring until B is looked up, is not evicted
\* before B.
C15_LookupMovesToMRU ==
  [][\A s \in Shards :
       \E lru \in {shard_[s].lru_} : \E lru2 \in {shard_'[s].lru_} :
         IF last'.op = "Lookup" /\ last'.ret # NULL
              /\ Shard(heap'[last'.ret].hash) = s
         THEN \E e \in {last'.ret} :
                /\ heap'[e].refs = heap[e].refs + 1
                /\ heap' = [heap EXCEPT ![e].refs = @ + 1]
                /\ e \in Range(lru)
                /\ Len(lru2) = Len(lru)
                /\ lru2[Len(lru2)] = e
                /\ SelectSeq(lru2, LAMBDA x : x # e)
                     = SelectSeq(lru, LAMBDA x : x # e)
                /\ shard_'[s].table_ = shard_[s].table_
                /\ shard_'[s].usage_ = shard_[s].usage_
         ELSE /\ Common(lru, lru2) = Common(lru2, lru)
              /\ (last'.op = "Insert" /\ ShardOfKey(last'.key) = s) =>
                   \A i \in 1..Len(last'.evicted) :
                     \A y \in Before(lru, last'.evicted[i]) :
                       \/ y = last'.old
                       \/ \E j \in 1..(i - 1) : last'.evicted[j] = y
    ]_vars

\* A Lookup has moved the entry it found behind an entry inserted later
C15_Witness ==
  /\ last.op = "Lookup"
  /\ last.ret # NULL
  /\ \E lru \in {shard_[ShardOfKey(last.key)].lru_} :
       /\ Len(lru) >= 2
       /\ lru[Len(lru)] = last.ret
       /\ lru[Len(lru) - 1] > last.ret

-----------------------------------------------------------------------------
(* C16 *)

\* C16: as long as a handle is unreleased its entry is allocated and holds
\* the value given to the Insert that made it, whether or not the entry has
\* been erased, replaced or evicted meanwhile; Value(handle) returns that
\* value and changes no shard and no entry.
C16_ValueForLifetime ==
  [][/\ \A h \in 1..MaxEntries :
          handles'[h] > 0 => h \in DOMAIN heap' /\ heap'[h].value = Value_(h)
     /\ last'.op = "Value" =>
          /\ handles[last'.ret] > 0
          /\ last'.value = Value_(last'.ret)
          /\ shard_' = shard_
          /\ heap' = heap
          /\ deleted' = deleted
          /\ handles' = handles
          /\ allocs' = allocs
    ]_vars

\* Value has returned the value of an entry that is no longer in the cache
C16_Witness ==
  /\ last.op = "Value"
  /\ gone[last.ret] \in {"erased", "replaced", "evicted"}
  /\ Unreachable(last.ret)
  /\ last.value = Value_(last.ret)

-----------------------------------------------------------------------------
(* C17 *)

\* Entry e of heap hp has a charge that alone exceeds the capacity of its
\* shard
Oversize(hp, e) == hp[e].charge > shard_[Shard(hp[e].hash)].capacity_

\* C17: every Insert returns a handle to the entry it made.  When the
\* charge of that entry alone exceeds the capacity of the shard, the Insert
\* has evicted the entry itself: no Lookup finds it when Insert returns, yet
\* it is allocated with refs 1 and the inserted value, without a deleter
\* call; the Release of the handle frees it with its one deleter call.
C17_OversizeInsert ==
  [][/\ last'.op = "Insert" =>
          /\ last'.ret = allocs' /\ allocs' = allocs + 1
          /\ last'.ret \in DOMAIN heap' /\ last'.ret \notin DOMAIN heap
          /\ handles'[last'.ret] = 1
          /\ heap'[last'.ret].value = Value_(last'.ret)
          /\ deleted'[last'.ret] = 0
          /\ Oversize(heap', last'.ret) =>
               /\ Len(last'.evicted) > 0
               /\ last'.evicted[Len(last'.evicted)] = last'.ret
               /\ UnreachableIn(shard_', heap', last'.ret)
               /\ LookupIn(shard_', heap', last'.key) = NULL
               /\ heap'[last'.ret].refs = 1
               /\ gone'[last'.ret] = "evicted"
     /\ \A e \in DOMAIN heap' :
          Oversize(heap', e) =>
            /\ UnreachableIn(shard_', heap', e)
            /\ heap'[e].refs = 1 /\ handles'[e] = 1
            /\ heap'[e].value = Value_(e) /\ deleted'[e] = 0
     /\ (last'.op = "Release" /\ last'.ret \in DOMAIN heap
           /\ Oversize(heap, last'.ret)) =>
          /\ last'.ret \notin DOMAIN heap'
          /\ deleted[last'.ret] = 0 /\ deleted'[last'.ret] = 1
          /\ last'.calls = << <<last'.ret, heap[last'.ret].key,
                                Value_(last'.ret)>> >>
          /\ handles'[last'.ret] = 0
    ]_vars

\* An Insert has returned the handle of an entry that it has evicted itself
\* because of its charge
C17_Witness ==
  /\ last.op = "Insert"
  /\ Oversize(heap, last.ret)
  /\ last.evicted[Len(last.evicted)] = last.ret
  /\ LookupNow(last.key) = NULL
  /\ heap[last.ret].refs = 1
  /\ Value(last.ret) = Value_(last.ret)

-----------------------------------------------------------------------------
(* C18, under SpecSched *)

\* The item the background thread has taken and not yet run to the end
InFlight == IF bgitem = NULL THEN <<>> ELSE <<bgitem>>

\* C18: pthread_create is called at most once however the Schedule calls
\* interleave; the items run, the item taken and the items in the queue
\* are, in this order, the items in the order of their push_back, each
\* once: so the one background thread runs every item at most once and in
\* the order in which the Schedule calls enqueued them.
C18_OnceFifoOneThread ==
  /\ created <= 1
  /\ created = (IF started_bgthread_ THEN 1 ELSE 0)
  /\ bgpc = "none" <=> created = 0
  /\ ran \o InFlight \o queue_ = enq
  /\ Cardinality(Range(enq)) = Len(enq)
  /\ \A i \in 1..Len(ran) : ran[i] = enq[i]

\* Two Schedule calls have overlapped, the later one has enqueued first,
\* and both items have been run, in the order of the queue
C18_Witness ==
  /\ created = 1
  /\ enq = <<2, 1>>
  /\ ran = <<2, 1>>

-----------------------------------------------------------------------------
(* C19, under SpecSchedFair *)

\* C19: under fair scheduling, with items that return, every item given to
\* a Schedule call is eventually run.
C19_EveryItemRuns ==
  \A i \in 1..MaxItems :
    (\E t \in SchedThreads : sitem[t] = i /\ spc[t] # "idle")
      ~> (i \in Range(ran))

\* A Schedule call that found the queue empty has signalled the background
\* thread blocked in pthread_cond_wait and has not yet pushed its item
C19_Witness ==
  /\ bgpc = "wait"
  /\ BG \notin bgsignal_
  /\ queue_ = <<>>
  /\ \E t \in SchedThreads : spc[t] = "push" /\ mu_ = t
  /\ Len(ran) >= 1

-----------------------------------------------------------------------------
(* C20, under SpecLock *)

\* The unreleased locks on file name f
HeldOn(locks, f) == {l \in locks : l.name = f}

\* Thread t's LockFile call returns in this step
LockFileReturns(t) ==
  lpc[t] \in {"insert", "oslock", "remove"} /\ lpc'[t] = "idle"

\* C20: there is at most one unreleased successful LockFile per file name,
\* and its name is in the lock table.  A LockFile that finds its name
\* locked returns in that step with a non-OK status and *lock = NULL, and
\* changes neither the locks held nor the table.  A LockFile whose fcntl
\* lock fails returns non-OK with *lock = NULL and its name is out of the
\* table when it returns.  UnlockFile takes the name out of the table, so
\* that a LockFile of the same name whose open and fcntl succeed returns OK
\* with a new lock.
C20_OneLockPerName ==
  [][/\ \A f \in FileNames :
          /\ Cardinality(HeldOn(held', f)) <= 1
          /\ HeldOn(held', f) # {} => f \in locked_files_'
     /\ \A t \in LockThreads :
          /\ (lpc[t] = "insert" /\ lpc'[t] # "insert"
                /\ (HeldOn(held, lfile[t]) # {} \/ lfile[t] \in locked_files_))
               => /\ LockFileReturns(t)
                  /\ ~lres'[t].ok /\ lres'[t].lock = NULL
                  /\ lres'[t].msg = "already held by process"
                  /\ held' = held
                  /\ locked_files_' = locked_files_
          /\ (lpc[t] = "remove" /\ LockFileReturns(t))
               => /\ ~lres'[t].ok /\ lres'[t].lock = NULL
                  /\ lfile[t] \notin locked_files_'
                  /\ held' = held
          /\ (lpc[t] = "unlock" /\ lpc'[t] = "idle")
               => lfile[t] \notin locked_files_'
          /\ (lpc[t] = "insert" /\ lpc'[t] # "insert"
                /\ lfile[t] \notin locked_files_)
               => lpc'[t] = "oslock" /\ lfile[t] \in locked_files_'
          /\ (lpc[t] = "oslock" /\ LockFileReturns(t))
               => /\ lres'[t].ok
                  /\ lres'[t].lock \in held' \ held
                  /\ lres'[t].lock.name = lfile[t]
                  /\ HeldOn(held, lfile[t]) = {}
    ]_vars

\* A file name is locked for the second time, after the UnlockFile of its
\* first lock, and another LockFile call of the same name has failed
\* because the name was locked
C20_Witness ==
  \E f \in FileNames :
    /\ grants[f] = 2
    /\ HeldOn(held, f) = {[name |-> f, id |-> 2]}
    /\ \E t \in LockThreads :
         /\ lfile[t] = f /\ lpc[t] = "idle"
         /\ ~lres[t].ok /\ lres[t].msg = "already held by process"

-----------------------------------------------------------------------------
(* C21 *)

\* C21: between public operations the ring of every shard links exactly the
\* entries reachable from the shard's table, each once, whether or not
\* handles to them are outstanding: an entry that left the table has left
\* the ring, held or not, and an entry with no handle is in both or neither.
C21_RingIsTable ==
  \A s \in Shards :
    /\ Range(shard_[s].lru_) = Reachable(s)
    /\ Len(shard_[s].lru_) = Cardinality(Reachable(s))

\* An Insert has just linked an entry in both while a second entry with no
\* handle is in both and a third, removed from both, is still held.
C21_Witness ==
  /\ last.op = "Insert"
  /\ \E s \in Shards :
       /\ last.ret \in Range(shard_[s].lru_) \cap Reachable(s)
       /\ \E e \in Range(shard_[s].lru_) \cap Reachable(s) : handles[e] = 0
       /\ \E e \in DOMAIN heap :
            /\ Shard(heap[e].hash) = s
            /\ handles[e] > 0
            /\ e \notin Range(shard_[s].lru_) \cup Reachable(s)

-----------------------------------------------------------------------------
(* C22 *)

\* C22: in every state the refs of each allocated entry is 1 for the table,
\* when the entry is reachable from it, plus the number of unreleased
\* handles to it, and is at least 1 (so the assert of Unref holds on entry);
\* an entry is freed, its deleter called once, exactly when it is neither
\* reachable nor held; the entry an Insert has just returned counts 2 while
\* it is reachable.
C22_RefsExact ==
  /\ \A e \in 1..MaxEntries :
       IF e \in DOMAIN heap
       THEN /\ heap[e].refs =
                 (IF e \in Reachable(Shard(heap[e].hash)) THEN 1 ELSE 0)
                 + handles[e]
            /\ heap[e].refs >= 1
            /\ deleted[e] = 0
       ELSE /\ handles[e] = 0
            /\ \A s \in Shards : e \notin Reachable(s)
            /\ deleted[e] = (IF e <= allocs THEN 1 ELSE 0)
  /\ (last.op = "Insert" /\ last.ret \in Reachable(ShardOfKey(last.key)))
       => heap[last.ret].refs = 2

\* A Release has just dropped the last reference of an entry that had left
\* the table, which freed it, while another entry is reachable and held
\* once (refs 2) and a third one is reachable with no handle (refs 1).
C22_Witness ==
  /\ last.op = "Release"
  /\ last.ret \notin DOMAIN heap
  /\ Len(last.calls) = 1
  /\ \E e \in DOMAIN heap : heap[e].refs = 2 /\ handles[e] = 1
  /\ \E e \in DOMAIN heap : heap[e].refs = 1 /\ handles[e] = 0

-----------------------------------------------------------------------------
(* C23 *)

\* C23: after every operation the table of a shard links at most one entry
\* per key; Lookup(key) finds the entry of that key whenever one is linked,
\* and it is the newest allocated entry of the key; the entry it finds is the
\* one an Insert of key has just created, or else one that was linked before
\* the operation, and after an Insert of key it is no entry but the new one;
\* an Insert that displaces an entry and evicts nothing puts the new entry at
\* the displaced entry's place in its chain, the chains otherwise as they
\* were.
C23_OnePerKey ==
  [][/\ \A s \in Shards :
          \A linked \in {TableEntries(shard_'[s].table_)} :
            /\ Cardinality({heap'[e].key : e \in linked}) = Cardinality(linked)
            /\ \A key \in {k \in Keys : ShardOfKey(k) = s} :
                 \A now \in {LookupIn(shard_', heap', key)} :
                   IF now # NULL
                   THEN /\ now \in linked
                        /\ heap'[now].key = key
                        /\ \A e \in DOMAIN heap' :
                             heap'[e].key = key => e <= now
                        /\ IF allocs' # allocs /\ last'.key = key
                           THEN now = last'.ret
                           ELSE now \in TableEntries(shard_[s].table_)
                   ELSE \A e \in linked : heap'[e].key # key
     /\ (allocs' # allocs /\ last'.old # NULL /\ last'.evicted = <<>>) =>
          LET s == ShardOfKey(last'.key)
              T == shard_[s].table_
          IN shard_'[s].table_ =
               [T EXCEPT !.list_ =
                  [b \in DOMAIN T.list_ |->
                     [i \in 1..Len(T.list_[b]) |->
                        IF T.list_[b][i] = last'.old THEN last'.ret
                        ELSE T.list_[b][i]]]]
    ]_vars

\* An Insert has just replaced a held entry of its key in place, ahead of
\* another entry of the same chain, and a Lookup of the key finds the new one.
C23_Witness ==
  /\ last.op = "Insert"
  /\ last.old \in DOMAIN heap
  /\ heap[last.old].key = last.key
  /\ last.evicted = <<>>
  /\ LookupNow(last.key) = last.ret
  /\ \E b \in DOMAIN shard_[ShardOfKey(last.key)].table_.list_ :
       LET chain == shard_[ShardOfKey(last.key)].table_.list_[b]
       IN Len(chain) = 2 /\ chain[1] = last.ret

-----------------------------------------------------------------------------
(* C24 *)

\* C24, as claimed: after every public operation usage_ of each shard is the
\* sum of charge over the entries reachable from its table, an entry's charge
\* being subtracted when it leaves the table, handles outstanding or not.
C24_UsageIsReachableCharge ==
  \A s \in Shards : shard_[s].usage_ = SumCharge(Reachable(s))

-----------------------------------------------------------------------------
(* C25 *)

\* C25: after every public operation each shard has usage_ <= capacity_ or
\* an empty ring; an operation other than Insert (no entry is allocated)
\* neither raises usage_ of a shard nor links an entry in its ring that was
\* not linked before.
C25_FitsOrRingEmpty ==
  [][/\ \A s \in Shards :
          shard_'[s].usage_ <= shard_'[s].capacity_ \/ shard_'[s].lru_ = <<>>
     /\ allocs' = allocs =>
          \A s \in Shards :
            /\ shard_'[s].usage_ <= shard_[s].usage_
            /\ Range(shard_'[s].lru_) \subseteq Range(shard_[s].lru_)
    ]_vars

\* The eviction pass of an Insert has run until the ring was empty, held
\* entries keeping usage_ above capacity_.
C25_Witness ==
  /\ last.op = "Insert"
  /\ Len(last.evicted) = 2
  /\ \E s \in Shards :
       shard_[s].usage_ > shard_[s].capacity_ /\ shard_[s].lru_ = <<>>

-----------------------------------------------------------------------------
(* C26 *)

\* C26: in every state usage_ of each shard is the sum of charge over the
\* entries of the shard that are still allocated, reachable from the table
\* or not; it is never negative and is 0 when the shard has no allocated
\* entry.
C26_UsageIsAllocatedCharge ==
  \A s \in Shards :
    /\ shard_[s].usage_ = SumCharge(EntriesOf(heap, s))
    /\ shard_[s].usage_ >= 0
    /\ EntriesOf(heap, s) = {} => shard_[s].usage_ = 0

\* An Erase has just removed a held entry from the table, another held entry
\* was displaced or evicted before it: the charge of both is still in usage_,
\* which exceeds the charge of the reachable entries.
C26_Witness ==
  /\ last.op = "Erase"
  /\ last.old \in DOMAIN heap
  /\ \E e \in DOMAIN heap :
       /\ gone[e] \in {"replaced", "evicted"}
       /\ Shard(heap[e].hash) = Shard(heap[last.old].hash)
       /\ shard_[Shard(heap[e].hash)].usage_ >=
            heap[e].charge + heap[last.old].charge
  /\ \E s \in Shards : shard_[s].usage_ > SumCharge(Reachable(s))

-----------------------------------------------------------------------------
(* C27 *)

\* C27, as claimed: when the charge of the entries reachable before an Insert,
\* the displaced entry of the same key left out, plus the charge of the new
\* entry is within capacity_, the Insert evicts nothing: the table and the
\* ring afterwards hold exactly those entries and the new one, however many
\* handles are outstanding.
C27_InsertEvictsOnlyWhenNeeded ==
  [][allocs' # allocs =>
       LET s == ShardOfKey(last'.key)
           kept == Reachable(s) \ {last'.old}
       IN SumCharge(kept) + heap'[last'.ret].charge <= shard_[s].capacity_ =>
            /\ last'.evicted = <<>>
            /\ TableEntries(shard_'[s].table_) = kept \cup {last'.ret}
            /\ Range(shard_'[s].lru_) = kept \cup {last'.ret}
    ]_vars

-----------------------------------------------------------------------------
(* C28 *)

\* C28: after every Insert and every Remove on a HandleTable elems_ is at
\* most length_ and length_ is a power of two, 4 or more; no call lowers
\* length_, Remove leaves it as it is.
C28_LengthBoundsElems ==
  [][/\ table_'.elems_ <= table_'.length_
     /\ \E k \in 2..31 : table_'.length_ = 2 ^ k
     /\ table_'.length_ >= table_.length_
     /\ tlast'.op = "Remove" => table_'.length_ = table_.length_
     /\ DOMAIN table_'.list_ = 0..(table_'.length_ - 1)
    ]_vars

\* The table has grown to 8 buckets and Removes have emptied it since.
C28_Witness ==
  /\ tlast.op = "Remove"
  /\ tlast.ret # NULL
  /\ table_.length_ = 8
  /\ table_.elems_ = 0

-----------------------------------------------------------------------------
(* C29 *)

\* C29: a call on a HandleTable changes length_ exactly when it is an Insert
\* that found no entry of its key (it returned NULL) and whose ++elems_ made
\* elems_ exceed length_; length_ is then doubled, which is the smallest
\* power of two >= elems_, and every entry linked before, with the new one,
\* is linked once in the chain of bucket hash & (length_ - 1).  For every
\* bucket count 2 ^ k up to 2 ^ MaxLengthBits, the new_length Resize computes
\* for 2 ^ k + 1 elements is 2 ^ (k + 1).
C29_ResizeWhenFull ==
  [][/\ (table_'.length_ # table_.length_) <=>
          /\ tlast'.op = "Insert"
          /\ tlast'.ret = NULL
          /\ table_.elems_ + 1 > table_.length_
     /\ (table_'.length_ # table_.length_) =>
          /\ table_'.length_ = 2 * table_.length_
          /\ table_'.length_ >= table_'.elems_
          /\ table_.length_ < table_'.elems_
          /\ table_'.elems_ = table_.elems_ + 1
          /\ TableEntries(table_') = TableEntries(table_) \cup {tlast'.h}
          /\ \A b \in 0..(table_'.length_ - 1) :
               \A i, j \in 1..Len(table_'.list_[b]) :
                 /\ BitAnd(nodes'[table_'.list_[b][i]].hash,
                           table_'.length_ - 1) = b
                 /\ table_'.list_[b][i] = table_'.list_[b][j] => i = j
     /\ \A k \in 2..MaxLengthBits : NewLength(4, 2 ^ k + 1) = 2 ^ (k + 1)
    ]_vars

\* The Insert of a fifth key has just grown the table from 4 to 8 buckets,
\* and entries that shared a chain of the 4 are in different chains of the 8.
C29_Witness ==
  /\ tlast.op = "Insert"
  /\ tlast.ret = NULL
  /\ table_.length_ = 8
  /\ table_.elems_ = 5
  /\ \E h1, h2 \in DOMAIN nodes :
       /\ BitAnd(nodes[h1].hash, 3) = BitAnd(nodes[h2].hash, 3)
       /\ \E b1, b2 \in 0..7 :
            /\ b1 # b2
            /\ h1 \in Range(table_.list_[b1])
            /\ h2 \in Range(table_.list_[b2])
  /\ \E b \in 0..7 : Len(table_.list_[b]) = 2

-----------------------------------------------------------------------------
(* C30 *)

\* C30: after every call on a HandleTable elems_ is the number of entries
\* linked in the chains (what the loop of Resize counts).  An Insert whose
\* key has no entry returns NULL, links the new entry and adds one to
\* elems_; an Insert whose key has an entry returns that entry, puts the new
\* one at its place in the chain and leaves elems_ and everything else as it
\* was; a Remove whose key has an entry returns it, unlinks it and takes one
\* off elems_; a Remove whose key has none returns NULL and changes nothing.
C30_ElemsCountsLinked ==
  [][/\ table_'.elems_ = Len(VisitOrder(table_', 0))
     /\ table_'.elems_ = Cardinality(TableEntries(table_'))
     /\ \A present \in {{e \in TableEntries(table_) :
                           nodes[e].key = tlast'.key}} :
          /\ Cardinality(present) <= 1
          /\ IF present = {}
             THEN /\ tlast'.ret = NULL
                  /\ IF tlast'.op = "Insert"
                     THEN /\ table_'.elems_ = table_.elems_ + 1
                          /\ TableEntries(table_') =
                               TableEntries(table_) \cup {tlast'.h}
                     ELSE table_' = table_
             ELSE /\ tlast'.ret \in present
                  /\ IF tlast'.op = "Insert"
                     THEN table_' =
                            [table_ EXCEPT !.list_ =
                               [b \in DOMAIN table_.list_ |->
                                  [i \in 1..Len(table_.list_[b]) |->
                                     IF table_.list_[b][i] = tlast'.ret
                                     THEN tlast'.h
                                     ELSE table_.list_[b][i]]]]
                     ELSE table_' =
                            [table_ EXCEPT
                               !.elems_ = @ - 1,
                               !.list_ =
                                 [b \in DOMAIN table_.list_ |->
                                    SelectSeq(table_.list_[b],
                                              LAMBDA x : x # tlast'.ret)]]
    ]_vars

\* An Insert has just replaced, in a table grown to 8 buckets, the first
\* entry of a chain of two, and returned the displaced entry.
C30_Witness ==
  /\ tlast.op = "Insert"
  /\ tlast.ret # NULL
  /\ table_.length_ = 8
  /\ table_.elems_ = 5
  /\ \E b \in 0..7 :
       Len(table_.list_[b]) = 2 /\ table_.list_[b][1] = tlast.h

-----------------------------------------------------------------------------
(* C31 *)

\* C31: after every call on a HandleTable each linked entry is in the chain
\* of bucket hash & (length_ - 1) and in no other chain; a call, whether or
\* not it runs Resize, changes the set of linked entries by the entry it
\* links or returns only, and a Lookup of any key other than the call's
\* returns the entry it returned before the call.
C31_ChainOfHash ==
  [][/\ \A b \in 0..(table_'.length_ - 1) :
          \A i \in 1..Len(table_'.list_[b]) :
            BitAnd(nodes'[table_'.list_[b][i]].hash, table_'.length_ - 1) = b
     /\ Len(VisitOrder(table_', 0)) = Cardinality(TableEntries(table_'))
     /\ TableEntries(table_') \ {tlast'.h} = TableEntries(table_) \ {tlast'.ret}
     /\ \A key \in TableKeys \ {tlast'.key} :
          HandleTable_Lookup(table_', nodes', key, HashSlice(key)) =
            HandleTable_Lookup(table_, nodes, key, HashSlice(key))
    ]_vars

\* A Resize has just spread five entries over 8 buckets: the two keys of
\* equal hash share a chain above bucket 3 and a Lookup finds each of them.
C31_Witness ==
  /\ tlast.op = "Insert"
  /\ tlast.ret = NULL
  /\ table_.length_ = 8
  /\ table_.elems_ = 5
  /\ \E b \in 4..7 :
       /\ Len(table_.list_[b]) = 2
       /\ \A i \in 1..2 :
            HandleTable_Lookup(table_, nodes, nodes[table_.list_[b][i]].key,
                               nodes[table_.list_[b][i]].hash)
              = table_.list_[b][i]

-----------------------------------------------------------------------------
(* C32 *)

\* C32: the shard of a key is the top kNumShardBits bits of its 32-bit hash,
\* a number in 0 .. kNumShards - 1; every entry carries the hash of its key
\* and is linked in the table and the ring of that shard only; every call in
\* progress, an Insert, Lookup or Erase of a key or a Release of a handle to
\* an entry of that key (routed by the hash stored in the entry), is on the
\* shard of the key.
C32_OneShardPerKey ==
  /\ \A key \in AllKeys :
       /\ ShardOfKey(key) \in 0..(kNumShards - 1)
       /\ HashSlice(key) =
            (ShardOfKey(key) * (2 ^ (32 - kNumShardBits)))
            + (HashSlice(key) % (2 ^ (32 - kNumShardBits)))
  /\ \A e \in DOMAIN heap :
       /\ heap[e].hash = HashSlice(heap[e].key)
       /\ \A s \in Shards :
            e \in Reachable(s) \cup Range(shard_[s].lru_)
              => s = ShardOfKey(heap[e].key)
  /\ \A t \in Threads :
       call[t].pc # "idle" =>
         call[t].s = ShardOfKey(IF call[t].op = "Release"
                                THEN heap[call[t].handle].key
                                ELSE call[t].key)

\* A Release of a handle to the entry of key d holds the lock of shard 1
\* while an Erase of key a holds the lock of shard 0.
C32_Witness ==
  \E t, u \in Threads :
    /\ call[t].pc = "locked" /\ call[t].op = "Release"
    /\ heap[call[t].handle].key = "d" /\ mutex_[1] = t
    /\ call[u].pc = "locked" /\ call[u].op = "Erase"
    /\ call[u].key = "a" /\ mutex_[0] = u

-----------------------------------------------------------------------------
(* C33 *)

\* C33, as claimed: whatever capacity of a size_t NewLRUCache was given,
\* capacity_ of each shard is the ceiling of capacity / kNumShards, so that
\* the kNumShards shards together hold at least capacity.
C33_PerShardIsCeiling ==
  \A s \in Shards :
    /\ shard_[s].capacity_ =
         (requested \div kNumShards)
         + (IF requested % kNumShards = 0 THEN 0 ELSE 1)
    /\ kNumShards * shard_[s].capacity_ >= requested

-----------------------------------------------------------------------------
(* C34 *)

\* A step writes the table, the ring, usage_ or an entry (its refs, its
\* allocation) of shard s
Mutates(s) ==
  \/ shard_'[s] # shard_[s]
  \/ \E e \in EntriesOf(heap, s) : e \notin DOMAIN heap' \/ heap'[e] # heap[e]
  \/ \E e \in EntriesOf(heap', s) : e \notin DOMAIN heap

\* C34, as claimed: the table, ring, usage_ and entries of a shard are
\* written only by a thread that holds the mutex_ of the shard, in a call it
\* entered with the lock and leaves with the lock released.
C34_MutatedOnlyUnderLock ==
  [][\A s \in Shards :
       Mutates(s) =>
         \E t \in Threads :
           /\ mutex_[s] = t
           /\ call[t].pc = "locked" /\ call[t].s = s
           /\ call'[t].pc = "idle" /\ mutex_'[s] # t
    ]_vars

\* C34, amended: Insert, Lookup, Release and Erase write the table, ring,
\* usage_ and entries of a shard only while the calling thread holds the
\* mutex_ of the shard; the thread holds it from the start of the body to
\* the return and no longer when the call has returned.  The destructor
\* writes them with no lock held.
C34_OperationsUnderLock ==
  [][/\ destroyed' = "no" =>
          \A s \in Shards :
            Mutates(s) =>
              \E t \in Threads :
                /\ mutex_[s] = t
                /\ call[t].pc = "locked" /\ call[t].s = s
                /\ call'[t].pc = "idle" /\ mutex_'[s] # t
     /\ \A t \in Threads :
          /\ call'[t].pc = "locked" => mutex_'[call'[t].s] = t
          /\ call'[t].pc # "locked" => \A s \in Shards : mutex_'[s] # t
     /\ destroyed' # destroyed =>
          /\ \A s \in Shards : mutex_[s] = NoThread
          /\ mutex_' = mutex_
    ]_vars

\* A thread has returned from an Insert that wrote shard 0 while the other
\* thread holds the lock of shard 1 in a call of its own.
C34_Witness ==
  /\ last.op = "Insert"
  /\ mutex_[0] = NoThread
  /\ \E e \in Reachable(0) : handles[e] = 1
  /\ \E t \in Threads :
       call[t].pc = "locked" /\ call[t].s = 1 /\ mutex_[1] = t

-----------------------------------------------------------------------------
(* C35 *)

\* C35: every Insert, Lookup, Release and Erase writes the table, ring,
\* usage_ and entries of one shard at most, the shard of its key (for
\* Release, of the hash stored in the entry of the handle); the entries an
\* Insert evicts and the entries whose deleter a call runs belong to that
\* shard.
C35_OneShardPerCall ==
  [][\A op \in {IF last'.op = "Release" THEN Shard(heap[last'.ret].hash)
                ELSE ShardOfKey(last'.key)} :
       /\ \A s \in Shards \ {op} : ~Mutates(s)
       /\ \A e \in Range(last'.evicted) :
            Shard((IF e \in DOMAIN heap THEN heap[e] ELSE heap'[e]).hash) = op
       /\ \A e \in DOMAIN heap : e \notin DOMAIN heap' => Shard(heap[e].hash) = op
       /\ \A i \in 1..Len(last'.calls) :
            ShardOfKey(last'.calls[i][2]) = op
    ]_vars

\* An Insert into shard 0 has just evicted an entry of shard 0 to fit its
\* capacity while shard 1, itself full, keeps its entry.
C35_Witness ==
  /\ last.op = "Insert"
  /\ ShardOfKey(last.key) = 0
  /\ last.evicted # <<>>
  /\ last.ret \in Reachable(0)
  /\ Reachable(1) # {}
  /\ shard_[1].usage_ = shard_[1].capacity_

-----------------------------------------------------------------------------
(* C36 *)

\* C36: with threads calling concurrently on a shard, in every interleaving
\* an entry to which a handle is unreleased is allocated, whatever Erase,
\* replacement or eviction another thread has completed on its key; an entry
\* is freed, with one deleter call, in the step that drops its last
\* reference: the Release of the last handle when it has left the table,
\* else the Insert or Erase that unlinks it with no handle out; no entry is
\* freed twice; the handle a Lookup returns is to an allocated entry.
C36_HeldEntryStaysAllocated ==
  [][/\ \A e \in 1..MaxEntries :
          /\ handles'[e] > 0 => e \in DOMAIN heap'
          /\ deleted'[e] <= 1
          /\ deleted'[e] # deleted[e] => e \in DOMAIN heap \ DOMAIN heap'
          /\ e \in DOMAIN heap \ DOMAIN heap' =>
               /\ deleted'[e] = deleted[e] + 1
               /\ handles'[e] = 0
               /\ \A s \in Shards : e \notin TableEntries(shard_'[s].table_)
               /\ IF handles[e] > 0
                  THEN /\ handles[e] = 1
                       /\ last'.op = "Release" /\ last'.ret = e
                       /\ gone[e] # "no"
                  ELSE last'.op \in {"Insert", "Erase"}
     /\ (last'.op = "Lookup" /\ last'.ret # NULL) => last'.ret \in DOMAIN heap'
    ]_vars

\* An entry was erased while two handles to it were out, one from the
\* Insert and one from a Lookup; it is still allocated, and both threads are
\* about to release their handle.
C36_Witness ==
  \E e \in DOMAIN heap :
    /\ gone[e] = "erased"
    /\ handles[e] = 2
    /\ heap[e].refs = 2
    /\ \A t \in ShardThreads :
         call[t].op = "Release" /\ call[t].handle = e /\ call[t].pc = "wait"

-----------------------------------------------------------------------------
(* C37 *)

\* C37: a deleter is called only by a thread that is in the body of an
\* Insert, Release or Erase and holds the mutex_ of the shard, and the thread
\* still holds it while the deleter runs; when the deleter calls an
\* operation routed to the same shard, that call waits for a mutex_ its own
\* thread holds: Mutex::Lock cannot return, and in every later step the
\* thread is still waiting and still holds the lock.
C37_DeleterUnderLock ==
  [][/\ deleted' # deleted =>
          \E t \in Threads :
            /\ call[t].pc = "locked"
            /\ call[t].op \in {"Insert", "Release", "Erase"}
            /\ mutex_[call[t].s] = t
            /\ mutex_'[call[t].s] = t
            /\ call'[t].pc = "wait"
            /\ call'[t].s = call[t].s
     /\ \A t \in Threads :
          (call[t].pc = "wait" /\ mutex_[call[t].s] = t) =>
            /\ call'[t] = call[t]
            /\ mutex_'[call[t].s] = t
            /\ ~Mutex_Lock(mutex_'[call[t].s], t)
    ]_vars

\* An Erase has freed an entry; its thread waits in the deleter's Lookup
\* for the lock it holds, and the other thread waits for the same lock.
C37_Witness ==
  /\ last.op = "deleter"
  /\ last.old # NULL
  /\ last.evicted = <<>>
  /\ \E t, u \in ShardThreads :
       /\ t # u
       /\ call[t].pc = "wait" /\ mutex_[call[t].s] = t
       /\ call[u].pc = "wait" /\ call[u].s = call[t].s
       /\ call[u].op = "Erase"

-----------------------------------------------------------------------------
(* C38 *)

\* C38: an operation that has its shard's lock returns.  Every iteration of
\* the eviction loop takes exactly one entry out of the ring, the entry at
\* lru_.next, whether or not usage_ comes down with it; Insert returns only
\* with the ring empty or usage_ <= capacity_; the chains of a table hold
\* no entry twice and no more than elems_ entries, all allocated; and every
\* thread that is in the body of an operation is eventually out of it.
C38_OperationsReturn ==
  /\ [][\A t \in LoopThreads :
          /\ (call[t].pc = "evict" /\ call'[t].pc = "evict"
              /\ shard_'[call[t].s] # shard_[call[t].s]) =>
               /\ shard_[call[t].s].lru_ # <<>>
               /\ shard_'[call[t].s].lru_ = Tail(shard_[call[t].s].lru_)
          /\ (call[t].pc = "evict" /\ call'[t].pc = "idle") =>
               \/ shard_'[call[t].s].lru_ = <<>>
               \/ shard_'[call[t].s].usage_ <= shard_'[call[t].s].capacity_
     ]_vars
  /\ [](\A s \in Shards : \A chain \in {VisitOrder(shard_[s].table_, 0)} :
          /\ Len(chain) = shard_[s].table_.elems_
          /\ Cardinality(Range(chain)) = Len(chain)
          /\ Range(chain) \subseteq DOMAIN heap)
  /\ \A t \in LoopThreads :
       (call[t].pc \in {"locked", "evict"}) ~> (call[t].pc = "idle")

\* An Insert has returned after two iterations that evicted entries with
\* outstanding handles: no deleter was called, usage_ did not come down, and
\* the loop stopped at the empty ring with usage_ above capacity_.
C38_Witness ==
  /\ last.op = "Insert"
  /\ last.ret # NULL
  /\ Len(last.evicted) = 2
  /\ last.calls = <<>>
  /\ \E s \in Shards :
       /\ last.ret \in DOMAIN heap
       /\ s = Shard(heap[last.ret].hash)
       /\ shard_[s].lru_ = <<>>
       /\ shard_[s].usage_ > shard_[s].capacity_
       /\ shard_[s].capacity_ > 0
  /\ \A t \in LoopThreads : call[t].pc # "evict"

=============================================================================
